---- MODULE Spec2Model ----
(***************************************************************************)
(* Model of the bundle interpretation pipeline of fhir-lens:               *)
(*   dataService.detectBundleMetadata   (bundle classifier)                *)
(*   FHIRRenderer                       (stage derivation, aggregators)    *)
(*   workflow utilities                 (NHCX_WORKFLOWS, progress)         *)
(*                                                                         *)
(* Strings that the code inspects with String.includes are modelled as     *)
(* sequences of word tokens ("ClaimResponse" = <<"Claim", "Response">>),    *)
(* so that "contains" is a real substring test: a ClaimResponse URI         *)
(* contains "Claim" and contains "Response".  An absent string and the     *)
(* empty string are both <<>> where the code reads the value through       *)
(* `|| ''` or only through `?.includes`.                                   *)
(* An optional value is a sequence of length 0 (absent) or 1 (present).    *)
(***************************************************************************)
EXTENDS Integers, Sequences, FiniteSets, TLC

VARIABLES
    bundle,   \* the bundle content (FHIRRenderer bundleData / a listed file)
    meta,     \* BundleMetadata computed by detectBundleMetadata, <<>> before
    view,     \* view model derived by FHIRRenderer's render, <<>> before
    pc,       \* position of the pipeline: "loaded", "classified", "rendered"
    listing,  \* data source mode and the (content, metadata) pairs listed
    walk,     \* stage identifiers visited by following next pointers
    progress, \* value getProgressPercentage returned last, <<>> before
    input,    \* argument handed to the utility functions (extractors, JSON)
    output    \* what they returned for it

vars == <<bundle, meta, view, pc, listing, walk, progress, input, output>>

(***************************************************************************)
(* Bounds of the model                                                     *)
(***************************************************************************)
\* number of entries a generated bundle has at most
MaxEntries == 2
\* number of items a generated ClaimResponse has at most (above ItemLimit)
MaxItems == 11
\* length of a generated adjudication list / total list at most
MaxAdjudications == 2
\* number of benefits a generated coverage has at most
MaxBenefits == 2
\* number of classifications a listing history records at most
MaxClassified == 2
MaxWalk == 6
MaxServed == 2
MaxLoads == 3
MaxAttempts == 2
MaxPolls == 4
MaxStarts == 2

(***************************************************************************)
(* Strings                                                                 *)
(***************************************************************************)
\* String.prototype.includes on token strings: pat occurs contiguously in s
Includes(s, pat) ==
    \E i \in 0..(Len(s) - Len(pat)) : SubSeq(s, i + 1, i + Len(pat)) = pat

RECURSIVE Text(_)
\* the JavaScript string a token string stands for
Text(s) == IF s = <<>> THEN "" ELSE Head(s) \o Text(Tail(s))

\* String.prototype.toLowerCase on the outcome codes the model draws
ToLowerCase(s) ==
    CASE s = "Complete" -> "complete"
      [] s = "PARTIAL"  -> "partial"
      [] OTHER          -> s

\* marker of an absent (undefined) scalar string field
Absent == "<absent>"

\* value of an optional number under JavaScript's `x || 0`
OrZero(o) == IF o = <<>> THEN 0 ELSE o[1]

(***************************************************************************)
(* JavaScript values, as JSON.parse delivers them and as the code reads    *)
(* them: property reads with and without optional chaining.  A string      *)
(* holds its word tokens (see above); a raised TypeError is the value      *)
(* TypeError, which every further step and operator propagates.            *)
(***************************************************************************)
Undefined == [kind |-> "undefined"]
Null == [kind |-> "null"]
TypeError == [kind |-> "TypeError"]
Bool(b) == [kind |-> "boolean", holds |-> b]
Str(tokens) == [kind |-> "string", text |-> tokens]
Num(n) == [kind |-> "number", value |-> n]
Fn(name) == [kind |-> "function", name |-> name]
Obj(fields) == [kind |-> "object", fields |-> fields]
Arr(items) == [kind |-> "array", items |-> items]

Raised(v) == v.kind = "TypeError"

\* v is null or undefined
Nullish(v) == v.kind \in {"undefined", "null"}

\* ToBoolean
Truthy(v) ==
    CASE v.kind \in {"undefined", "null", "TypeError"} -> FALSE
      [] v.kind = "boolean" -> v.holds
      [] v.kind = "string" -> v.text # <<>>
      [] v.kind = "number" -> v.value # 0
      [] OTHER -> TRUE

\* a || b, b given as the value it would evaluate to
OrElse(a, b) == IF Raised(a) \/ Truthy(a) THEN a ELSE b

\* if (!test) return whenFalsy; return otherwise
UnlessFalsy(test, whenFalsy, otherwise) ==
    IF Raised(test) THEN test
    ELSE IF Truthy(test) THEN otherwise ELSE whenFalsy

RECURSIVE Split(_, _)
\* String.prototype.split(sep) on a token string: the list of segments
Split(tokens, sep) ==
    IF tokens = <<>> THEN << <<>> >>
    ELSE LET rest == Split(Tail(tokens), sep) IN
         IF Head(tokens) = sep THEN << <<>> >> \o rest
         ELSE << <<Head(tokens)>> \o Head(rest) >> \o Tail(rest)

\* the text a value contributes to a template literal
TemplateText(v) ==
    CASE v.kind = "string" -> v.text
      [] v.kind = "number" -> <<ToString(v.value)>>
      [] v.kind = "boolean" -> <<ToString(v.holds)>>
      [] OTHER -> <<v.kind>>   \* "undefined", "null"

RECURSIVE ConcatText(_)
ConcatText(parts) ==
    IF parts = <<>> THEN <<>>
    ELSE TemplateText(Head(parts)) \o ConcatText(Tail(parts))

\* a template literal `${parts[1]}${parts[2]}...`
Template(parts) ==
    IF \E i \in 1..Len(parts) : Raised(parts[i]) THEN TypeError
    ELSE Str(ConcatText(parts))

RECURSIVE Join(_, _)
\* Array.prototype.join(sep): null and undefined items give ''
Join(items, sep) ==
    IF items = <<>> THEN <<>>
    ELSE (IF Nullish(Head(items)) THEN <<>> ELSE TemplateText(Head(items)))
         \o (IF Len(items) = 1 THEN <<>> ELSE sep \o Join(Tail(items), sep))

RECURSIVE TrimStart(_)
TrimStart(tokens) ==
    IF tokens # <<>> /\ Head(tokens) = " " THEN TrimStart(Tail(tokens))
    ELSE tokens

RECURSIVE TrimEnd(_)
TrimEnd(tokens) ==
    IF tokens # <<>> /\ tokens[Len(tokens)] = " "
    THEN TrimEnd(SubSeq(tokens, 1, Len(tokens) - 1))
    ELSE tokens

\* String.prototype.trim; " " is the whitespace token
Trim(tokens) == TrimEnd(TrimStart(tokens))

\* two decimal digits of k < 100
TwoDigits(k) == (IF k < 10 THEN "0" ELSE "") \o ToString(k)

RECURSIVE GroupLakhs(_)
\* digits above the thousands, grouped in twos
GroupLakhs(m) ==
    IF m < 100 THEN ToString(m)
    ELSE GroupLakhs(m \div 100) \o "," \o TwoDigits(m % 100)

\* Number.prototype.toLocaleString('en-IN') of a natural number: 12,34,567
ToLocaleStringEnIN(n) ==
    IF n < 1000 THEN ToString(n)
    ELSE GroupLakhs(n \div 1000) \o ","
         \o (IF n % 1000 < 100 THEN "0" ELSE "") \o TwoDigits(n % 1000)

MonthNames ==
    ("01" :> "January") @@ ("02" :> "February") @@ ("03" :> "March") @@
    ("04" :> "April") @@ ("05" :> "May") @@ ("06" :> "June") @@
    ("07" :> "July") @@ ("08" :> "August") @@ ("09" :> "September") @@
    ("10" :> "October") @@ ("11" :> "November") @@ ("12" :> "December")

\* day of the month without its leading zero, for the days the model draws
DayNumbers == ("01" :> "1") @@ ("05" :> "5") @@ ("15" :> "15") @@ ("31" :> "31")

\* new Date(s).toLocaleDateString('en-IN', {year: 'numeric', month: 'long',
\* day: 'numeric'}) of the token string <<yyyy, "-", mm, "-", dd>>
ToLocaleDateString(tokens) ==
    IF /\ Len(tokens) = 5 /\ tokens[2] = "-" /\ tokens[4] = "-"
       /\ tokens[3] \in DOMAIN MonthNames /\ tokens[5] \in DOMAIN DayNumbers
    THEN Str(<<DayNumbers[tokens[5]], " ", MonthNames[tokens[3]], " ",
               tokens[1]>>)
    ELSE Str(<<"Invalid Date">>)

\* the steps of a member expression: .key  ?.key  ?.[index]  .m(arg)  ?.m(arg)
Dot(key) == [how |-> "get", opt |-> FALSE, key |-> key, index |-> 0,
             arg |-> <<>>]
QDot(key) == [how |-> "get", opt |-> TRUE, key |-> key, index |-> 0,
              arg |-> <<>>]
At(index) == [how |-> "at", opt |-> FALSE, key |-> "", index |-> index,
              arg |-> <<>>]
QAt(index) == [how |-> "at", opt |-> TRUE, key |-> "", index |-> index,
               arg |-> <<>>]
Call(method, arg) == [how |-> "call", opt |-> FALSE, key |-> method,
                      index |-> 0, arg |-> arg]
QCall(method, arg) == [how |-> "call", opt |-> TRUE, key |-> method,
                       index |-> 0, arg |-> arg]

\* one step on a value that is neither null nor undefined
Access(v, step) ==
    CASE step.how = "get" ->
            IF v.kind = "object" /\ step.key \in DOMAIN v.fields
            THEN v.fields[step.key]
            ELSE IF v.kind = "array" /\ step.key = "length"
            THEN Num(Len(v.items))
            ELSE Undefined
      [] step.how = "at" ->
            IF v.kind = "array" /\ step.index < Len(v.items)
            THEN v.items[step.index + 1]
            ELSE Undefined
      [] OTHER ->
            IF v.kind = "string" /\ step.key = "includes"
            THEN Bool(Includes(v.text, step.arg))
            ELSE IF v.kind = "string" /\ step.key = "split"
            THEN LET parts == Split(v.text, step.arg[1])
                 IN Arr([i \in 1..Len(parts) |-> Str(parts[i])])
            ELSE IF v.kind = "array" /\ step.key = "pop"
            THEN IF v.items = <<>> THEN Undefined
                 ELSE v.items[Len(v.items)]
            ELSE IF v.kind = "array" /\ step.key = "join"
            THEN Str(Join(v.items, step.arg))
            ELSE IF v.kind = "string" /\ step.key = "trim"
            THEN Str(Trim(v.text))
            ELSE IF v.kind = "number" /\ step.key = "toLocaleString"
            THEN Str(<<ToLocaleStringEnIN(v.value)>>)
            ELSE TypeError   \* "v.m is not a function"

RECURSIVE Eval(_, _)
\* the value of v followed by the steps: an optional step on a nullish
\* value ends the whole chain with undefined, a plain step on it raises
Eval(v, steps) ==
    IF Raised(v) \/ steps = <<>> THEN v
    ELSE IF Nullish(v)
    THEN IF Head(steps).opt THEN Undefined ELSE TypeError
    ELSE Eval(Access(v, Head(steps)), Tail(steps))

(***************************************************************************)
(* Resource type names and profile URIs                                    *)
(***************************************************************************)
tInsurancePlan == <<"InsurancePlan">>
tCERequest     == <<"CoverageEligibility", "Request">>
tCEResponse    == <<"CoverageEligibility", "Response">>
tClaim         == <<"Claim">>
tClaimResponse == <<"Claim", "Response">>
tCoverage      == <<"Coverage">>
tTask          == <<"Task">>
tCommunication == <<"Communication">>
tObservation   == <<"Observation">>
tEnrollmentResponse == <<"Enrollment", "Response">>

\* the resource kinds the classifier knows by name
KnownTypes ==
    {tInsurancePlan, tCERequest, tCEResponse, tClaim, tClaimResponse,
     tCoverage, tTask, tCommunication}

\* kinds it does not classify specially
OtherTypes == {tObservation, tEnrollmentResponse}

\* <<>> : entry[0].resource has no resourceType
ResourceTypes == KnownTypes \cup OtherTypes \cup {<<>>}

\* profile URIs: https://nrces.in/.../StructureDefinition/<Name>[Bundle]
Uri(name) == <<"nrces/">> \o name

\* <<>> : no meta.profile[0]
Profiles ==
    {<<>>} \cup
    { Uri(n) : n \in {tInsurancePlan, tCERequest, tCEResponse, tClaim,
                      tClaimResponse, <<"PreAuth">>, <<"PreAuth", "Response">>,
                      <<"Task", "Response">>, <<"Patient">>} }

TypeCodes == {Absent, "preauthorization", "institutional"}

Outcomes == {Absent, "complete", "partial", "error", "Complete"}

(***************************************************************************)
(* Bundles                                                                 *)
(***************************************************************************)
\* a resource; item/total/coverage are optional lists (see the aggregators).
\* The JSON property `total` is the field total when it holds a list and
\* the field totalObject when it holds a single Money object.
Resource(type, profile, typeCode, outcome, item, total, coverage) ==
    [resourceType |-> type, profile |-> profile, typeCode |-> typeCode,
     outcome |-> outcome, item |-> item, total |-> total,
     totalObject |-> <<>>, coverage |-> coverage]

\* a resource with only the fields the classifier and the stage engine read
PlainResource(type, profile, typeCode, outcome) ==
    Resource(type, profile, typeCode, outcome, <<>>, <<>>, <<>>)

\* secondary resource of a bundle (entries after the first)
PatientResource == PlainResource(<<"Patient">>, <<>>, Absent, Absent)

\* an entry wraps an optional resource
Entry(optResource) == [resource |-> optResource]

\* hasEntry = FALSE : the bundle has no entry field at all
Bundle(profile, hasEntry, entry) ==
    [profile |-> profile, hasEntry |-> hasEntry, entry |-> entry]

\* entries after the first one: none, or up to MaxEntries - 1 more, which
\* wrap a Patient or no resource
RestEntries ==
    UNION { [1..n -> {Entry(<<PatientResource>>), Entry(<<>>)}] :
            n \in 0..(MaxEntries - 1) }

\* bundles that differ in everything the classifier and stage engine read
ClassifierBundles ==
    \* no entries: absent or empty list
    { Bundle(p, h, <<>>) : p \in Profiles, h \in BOOLEAN } \cup
    \* first entry wraps no resource
    { Bundle(p, TRUE, <<Entry(<<>>)>> \o rest) :
        p \in Profiles, rest \in RestEntries } \cup
    \* first entry wraps the main resource
    { Bundle(p, TRUE, <<Entry(<<PlainResource(t, rp, c, o)>>)>> \o rest) :
        p \in Profiles, t \in ResourceTypes,
        rp \in {<<>>, Uri(tClaim), Uri(tClaimResponse), Uri(tCERequest),
                Uri(<<"PreAuth">>), Uri(tInsurancePlan)},
        c \in TypeCodes, o \in Outcomes, rest \in RestEntries }

(***************************************************************************)
(* ClaimResponse items and totals, InsurancePlan coverages                 *)
(***************************************************************************)
\* an optional amount.value
Amounts == {<<>>, <<0>>, <<600>>, <<1000>>}

\* category.coding[0].code of an adjudication or of a total entry
AdjudicationCodes == {"submitted", "benefit", "eligible"}

\* one adjudication (item.adjudication[i]) or one total entry (total[i])
Adjudication(code, value) == [code |-> code, value |-> value]

Adjudications == { Adjudication(c, v) : c \in AdjudicationCodes, v \in Amounts }

\* lists of adjudications / total entries of length 0..MaxAdjudications
AdjudicationLists ==
    UNION { [1..n -> Adjudications] : n \in 0..MaxAdjudications }

\* an item carries an optional adjudication list
Item(optAdjudication) == [adjudication |-> optAdjudication]

Items == {Item(<<>>)} \cup { Item(<<l>>) : l \in AdjudicationLists }

\* the spec's three example items (1000/0, 1000/600, 1000/1000)
ExampleItems ==
    { Item(<<<<Adjudication("submitted", <<1000>>),
               Adjudication("benefit", <<v>>)>>>>) : v \in {0, 600, 1000} }

\* item lists: every single item, and longer lists of the example items
ItemLists ==
    {<<>>} \cup { <<i>> : i \in Items } \cup
    { [k \in 1..n |-> IF k = n THEN j ELSE i] :
        n \in 2..MaxItems, i \in ExampleItems, j \in ExampleItems }

\* an optional limit[0].value.value per limit of a benefit
LimitLists ==
    {<<>>, << <<5000>> >>, << <<3000>> >>, << <<>> >>,
     << <<5000>>, <<3000>> >>, << <<0>> >>}

\* a benefit carries its list of limits (absent list = empty list)
Benefit(limit) == [limit |-> limit]

Benefits == { Benefit(l) : l \in LimitLists }

\* a coverage carries an optional benefit list
Coverage(optBenefit) == [benefit |-> optBenefit]

Coverages ==
    {Coverage(<<>>)} \cup
    { Coverage(<<l>>) : l \in UNION { [1..n -> Benefits] : n \in 0..MaxBenefits } }

\* coverage lists of an InsurancePlan: none, one, or two coverages
CoverageLists ==
    {<<>>} \cup { <<c>> : c \in Coverages } \cup
    { <<c, d>> : c \in Coverages,
                 d \in {Coverage(<<>>), Coverage(<<<<Benefit(<<>>)>>>>)} }

ClaimResponseWith(optItem, optTotal) ==
    Resource(tClaimResponse, <<>>, "institutional", "complete",
             optItem, optTotal, <<>>)

\* a ClaimResponse whose total is one Money object {value?, currency}
ClaimResponseWithTotalObject(optValue) ==
    [ClaimResponseWith(<<>>, <<>>) EXCEPT !.totalObject = <<[value |-> optValue]>>]

InsurancePlanWith(optCoverage) ==
    Resource(tInsurancePlan, <<>>, Absent, Absent, <<>>, <<>>, optCoverage)

OneEntryBundle(resource) == Bundle(<<>>, TRUE, <<Entry(<<resource>>)>>)

\* bundles that differ in what the aggregators read
AggregateBundles ==
    \* ClaimResponse: items vary
    { OneEntryBundle(ClaimResponseWith(<<l>>, <<>>)) : l \in ItemLists } \cup
    {OneEntryBundle(ClaimResponseWith(<<>>, <<>>))} \cup
    \* ClaimResponse: total varies
    { OneEntryBundle(ClaimResponseWith(<<>>, <<l>>)) : l \in AdjudicationLists }
    \cup
    \* a Claim with items and totals is not broken down
    { OneEntryBundle(Resource(tClaim, <<>>, "institutional", Absent,
                              <<l>>, <<t>>, <<>>)) :
        l \in { <<i>> : i \in ExampleItems },
        t \in { <<Adjudication("submitted", <<1000>>),
                  Adjudication("benefit", <<600>>)>> } } \cup
    \* InsurancePlan as main resource: coverage varies
    { OneEntryBundle(InsurancePlanWith(<<l>>)) : l \in CoverageLists } \cup
    {OneEntryBundle(InsurancePlanWith(<<>>))} \cup
    \* InsurancePlan behind a Patient entry
    { Bundle(<<>>, TRUE, <<Entry(<<PatientResource>>),
                           Entry(<<InsurancePlanWith(<<l>>)>>)>>) :
        l \in { <<c>> : c \in Coverages } } \cup
    \* ClaimResponse whose total is a single object
    { OneEntryBundle(ClaimResponseWithTotalObject(v)) : v \in Amounts } \cup
    \* ClaimResponse followed by an entry that wraps no resource
    { Bundle(<<>>, TRUE, <<Entry(<<ClaimResponseWith(<<l>>, <<>>)>>),
                           Entry(<<>>)>>) :
        l \in { <<i>> : i \in ExampleItems } }

(***************************************************************************)
(* dataService.detectBundleMetadata                                        *)
(***************************************************************************)
\* bundle.entry?.[0]?.resource, as an optional
MainResource(b) ==
    IF b.hasEntry /\ Len(b.entry) > 0 THEN b.entry[1].resource ELSE <<>>

\* mainResource?.resourceType ; <<>> when there is none
MainResourceType(b) ==
    IF MainResource(b) = <<>> THEN <<>> ELSE MainResource(b)[1].resourceType

\* mainResource?.meta?.profile?.[0] || ''
MainResourceProfile(b) ==
    IF MainResource(b) = <<>> THEN <<>> ELSE MainResource(b)[1].profile

\* mainResource?.type?.coding?.[0]?.code
MainTypeCode(b) ==
    IF MainResource(b) = <<>> THEN Absent ELSE MainResource(b)[1].typeCode

\* bundle.entry?.length || 0
ResourceCount(b) == IF b.hasEntry THEN Len(b.entry) ELSE 0

\* mutant: only the resource type name decides the direction
IsResponse_TypeOnly(b) == Includes(MainResourceType(b), <<"Response">>)

\* const isResponse = type?.includes('Response') || profile.includes(..) || ..
IsResponse(b) ==
    \/ Includes(MainResourceType(b), <<"Response">>)
    \/ Includes(b.profile, <<"Response">>)
    \/ Includes(MainResourceProfile(b), <<"Response">>)

Direction(isResp) == IF isResp THEN "response" ELSE "request"

Metadata(title, description, type, workflow, count) ==
    [title |-> title, description |-> description, type |-> type,
     workflow |-> workflow, resourceCount |-> count]

\* mutant: the title loses its `|| 'FHIR Bundle'` default
FallbackTitle_NoDefault(b) == Text(MainResourceType(b))

\* mutant: the fallback title ignores the resource type
FallbackTitle_Constant(b) == "FHIR Bundle"

\* mainResourceType || 'FHIR Bundle'
FallbackTitle(b) ==
    IF MainResourceType(b) = <<>> THEN "FHIR Bundle"
    ELSE Text(MainResourceType(b))

\* `${mainResourceType || 'FHIR'} resource bundle`
FallbackDescription(b) ==
    (IF MainResourceType(b) = <<>> THEN "FHIR" ELSE Text(MainResourceType(b)))
        \o " resource bundle"

(***************************************************************************)
(* The classifier's rule table as the specification states it (section     *)
(* 4.2): RuleHolds(i, b) is the condition of rule i, RuleOutcome(i, b) the *)
(* title, workflow and direction it assigns.  "profile" in rules 4 and 5   *)
(* is the bundle's profile URI; rules 1-3 and 6 name both URIs.            *)
(***************************************************************************)
Rules == 1..9

EitherProfileIncludes(b, pat) ==
    Includes(b.profile, pat) \/ Includes(MainResourceProfile(b), pat)

RuleHolds(i, b) ==
    CASE i = 1 -> MainResourceType(b) = tInsurancePlan
                  \/ EitherProfileIncludes(b, tInsurancePlan)
      [] i = 2 -> Includes(MainResourceType(b), tCERequest)
                  \/ EitherProfileIncludes(b, tCERequest)
      [] i = 3 -> Includes(MainResourceType(b), tCEResponse)
                  \/ EitherProfileIncludes(b, tCEResponse)
      [] i = 4 -> MainResourceType(b) = tClaim
                  \/ (Includes(b.profile, tClaim)
                      /\ ~Includes(b.profile, <<"Response">>))
      [] i = 5 -> MainResourceType(b) = tClaimResponse
                  \/ Includes(b.profile, tClaimResponse)
      [] i = 6 -> EitherProfileIncludes(b, <<"PreAuth">>)
                  \/ MainTypeCode(b) = "preauthorization"
      [] i = 7 -> MainResourceType(b) = tCoverage
      [] i = 8 -> MainResourceType(b) \in {tTask, tCommunication}
      [] OTHER -> TRUE

\* direction inference helper of section 4.2
InferredDirection(b) ==
    IF \/ Includes(MainResourceType(b), <<"Response">>)
       \/ EitherProfileIncludes(b, <<"Response">>)
    THEN "response" ELSE "request"

Outcome3(title, workflow, type) ==
    [title |-> title, workflow |-> workflow, type |-> type]

RuleOutcome(i, b) ==
    CASE i = 1 -> Outcome3("Insurance Plan", "Insurance Plan Discovery",
                           "response")
      [] i = 2 -> Outcome3("Eligibility Check Request",
                           "Eligibility Verification", "request")
      [] i = 3 -> Outcome3("Eligibility Check Response",
                           "Eligibility Verification", "response")
      [] i = 4 -> Outcome3("Claim Request", "Claim Processing", "request")
      [] i = 5 -> Outcome3("Claim Response", "Claim Processing", "response")
      [] i = 6 -> Outcome3(IF InferredDirection(b) = "response"
                           THEN "Pre-Authorization Response"
                           ELSE "Pre-Authorization Request",
                           "Pre-Authorization", InferredDirection(b))
      [] i = 7 -> Outcome3("Coverage Information", "Coverage Information",
                           InferredDirection(b))
      [] i = 8 -> Outcome3("Claim Status Check", "Claim Status",
                           InferredDirection(b))
      [] OTHER -> Outcome3(IF MainResourceType(b) = <<>> THEN "FHIR Bundle"
                           ELSE Text(MainResourceType(b)),
                           "NHCX Workflow", InferredDirection(b))

\* the first rule of `order` whose condition holds
RECURSIVE FirstMatch(_, _)
FirstMatch(order, b) ==
    IF Len(order) = 1 \/ RuleHolds(Head(order), b) THEN Head(order)
    ELSE FirstMatch(Tail(order), b)

\* title, workflow and direction of a BundleMetadata
Projection(m) == Outcome3(m.title, m.workflow, m.type)

\* mutant: the pre-authorization check is made before the claim checks
detectBundleMetadata_PreAuthFirst(b) ==
    LET o == RuleOutcome(FirstMatch(<<1, 2, 3, 6, 4, 5, 7, 8, 9>>, b), b)
    IN Metadata(o.title, "", o.type, o.workflow, ResourceCount(b))

\* mutant: the direction is read off the main resource's type name
detectBundleMetadata_DirectionByType(b) ==
    LET o == RuleOutcome(FirstMatch(<<1, 2, 3, 4, 5, 6, 7, 8, 9>>, b), b)
    IN Metadata(o.title, "",
                Direction(Includes(MainResourceType(b), <<"Response">>)),
                o.workflow, ResourceCount(b))

\* mutant: the direction is taken from the bundle the renderer holds
detectBundleMetadata_FromLoaded(b) ==
    Metadata(FallbackTitle(b), FallbackDescription(b),
             Direction(IsResponse(bundle)), "NHCX Workflow", ResourceCount(b))

detectBundleMetadata(b) ==
    LET profile == b.profile
        mainResourceType == MainResourceType(b)
        mainResourceProfile == MainResourceProfile(b)
        isResponse == IsResponse(b)
        n == ResourceCount(b)
    IN
    IF \/ mainResourceType = tInsurancePlan
       \/ Includes(profile, tInsurancePlan)
       \/ Includes(mainResourceProfile, tInsurancePlan)
    THEN Metadata("Insurance Plan",
                  "Insurance plan details with coverage and benefits",
                  "response", "Insurance Plan Discovery", n)
    ELSE IF \/ mainResourceType = tCERequest
            \/ Includes(profile, tCERequest)
            \/ Includes(mainResourceProfile, tCERequest)
    THEN Metadata("Eligibility Check Request",
                  "Coverage eligibility verification request",
                  "request", "Eligibility Verification", n)
    ELSE IF \/ mainResourceType = tCEResponse
            \/ Includes(profile, tCEResponse)
            \/ Includes(mainResourceProfile, tCEResponse)
    THEN Metadata("Eligibility Check Response",
                  "Coverage eligibility verification response",
                  "response", "Eligibility Verification", n)
    ELSE IF \/ mainResourceType = tClaim
            \/ (Includes(profile, tClaim) /\ ~Includes(profile, <<"Response">>))
    THEN Metadata("Claim Request", "Medical claim submission",
                  "request", "Claim Processing", n)
    ELSE IF \/ mainResourceType = tClaimResponse
            \/ Includes(profile, tClaimResponse)
    THEN Metadata("Claim Response", "Medical claim processing response",
                  "response", "Claim Processing", n)
    ELSE IF \/ Includes(profile, <<"PreAuth">>)
            \/ Includes(mainResourceProfile, <<"PreAuth">>)
            \/ MainTypeCode(b) = "preauthorization"
    THEN Metadata(IF isResponse THEN "Pre-Authorization Response"
                                ELSE "Pre-Authorization Request",
                  "Pre-authorization requirements and approval",
                  Direction(isResponse), "Pre-Authorization", n)
    ELSE IF mainResourceType = tCoverage
    THEN Metadata("Coverage Information", "Insurance coverage details",
                  Direction(isResponse), "Coverage Information", n)
    ELSE IF mainResourceType = tTask \/ mainResourceType = tCommunication
    THEN Metadata("Claim Status Check", "Claim processing status inquiry",
                  Direction(isResponse), "Claim Status", n)
    ELSE Metadata(FallbackTitle(b), FallbackDescription(b),
                  Direction(isResponse), "NHCX Workflow", n)

(***************************************************************************)
(* Parsed JSON bundles: each field the classifier and                      *)
(* extractWorkflowContext read can be missing, at every level              *)
(***************************************************************************)
\* rec restricted to keys
Keep(rec, keys) == [k \in keys |-> rec[k]]

\* rec with key set to val
With(rec, key, val) ==
    [k \in DOMAIN rec \cup {key} |-> IF k = key THEN val ELSE rec[k]]

\* an entry of ClaimResponse.total
TotalEntry(code, amount) ==
    Obj([category |-> Obj([coding |-> Arr(<<Obj([code |-> Str(<<code>>)])>>)]),
         amount |-> Obj([value |-> Num(amount), currency |-> Str(<<"INR">>)])])

\* meta objects: without profile, with an empty profile list, with a URI
JsonMetas ==
    {Obj([versionId |-> Str(<<"1">>)]), Obj([profile |-> Arr(<<>>)])} \cup
    { Obj([profile |-> Arr(<<Str(Uri(n))>>)]) :
        n \in {tClaim, <<"PreAuth">>, <<"Patient">>} }

\* a ClaimResponse with every field the two functions read
FullResource ==
    [id |-> Str(<<"r1">>),
     resourceType |-> Str(tClaimResponse),
     meta |-> Obj([profile |-> Arr(<<Str(Uri(tClaimResponse))>>)]),
     type |-> Obj([coding |-> Arr(<<Obj([code |-> Str(<<"institutional">>)])>>)]),
     patient |-> Obj([reference |-> Str(<<"Patient", "/", "p1">>)]),
     insurer |-> Obj([display |-> Str(<<"Payer">>)]),
     provider |-> Obj([display |-> Str(<<"Hospital">>)]),
     status |-> Str(<<"active">>),
     outcome |-> Str(<<"complete">>),
     total |-> Arr(<<TotalEntry("submitted", 1000)>>)]

\* the fields that may be missing
ResourceKeys == DOMAIN FullResource \ {"id"}

\* other shapes of single fields: <<key, value>>
FieldVariants ==
    { <<"resourceType", Str(t)>> : t \in {tObservation, tClaim} } \cup
    { <<"meta", m>> : m \in JsonMetas } \cup
    { <<"type", t>> :
        t \in {Obj([text |-> Str(<<"claim">>)]),
                Obj([coding |-> Arr(<<>>)]),
                Obj([coding |-> Arr(<<Obj([display |-> Str(<<"x">>)])>>)]),
                Obj([coding |->
                       Arr(<<Obj([code |-> Str(<<"preauthorization">>)])>>)])} }
    \cup
    { <<"patient", t>> :
        t \in {Obj([display |-> Str(<<"Asha">>)]),
                Obj([reference |-> Str(<<>>)]),
                Obj([identifier |-> Arr(<<>>)]),
                Obj([identifier |-> Arr(<<Obj([system |-> Str(<<"abha">>)])>>)]),
                Obj([identifier |-> Arr(<<Obj([value |-> Str(<<"91-1">>)])>>)])} }
    \cup
    { <<"insurer", t>> :
        t \in {Obj([type |-> Str(<<"Organization">>)]),
                Obj([reference |-> Str(<<"Organization", "/", "o1">>)])} } \cup
    { <<"total", t>> :
        t \in {Arr(<<>>),
                Arr(<<Obj([amount |-> Obj([value |-> Num(5)])])>>),
                Arr(<<Obj([category |-> Obj([text |-> Str(<<"x">>)])]),
                      TotalEntry("benefit", 600)>>),
                Arr(<<Obj([category |->
                        Obj([coding |-> Arr(<<Obj([code |->
                                                   Str(<<"benefit">>)])>>)])])>>),
                Obj([value |-> Num(1000), currency |-> Str(<<"INR">>)]),
                Obj([currency |-> Str(<<"INR">>)])} }

JsonResources ==
    { Obj(Keep(FullResource, present \cup {"id"})) :
        present \in SUBSET ResourceKeys } \cup
    { Obj(With(FullResource, v[1], v[2])) : v \in FieldVariants }

\* entry lists without a main resource: empty, or entries wrapping nothing
EmptyEntryLists ==
    {Arr(<<>>), Arr(<<Obj([fullUrl |-> Str(<<"urn:1">>)])>>),
     Arr(<<Obj([fullUrl |-> Str(<<"urn:1">>)]),
           Obj([resource |-> Obj(FullResource)])>>)}

\* {resourceType: 'Bundle', meta?, entry?}; an option is <<>> or <<value>>
JsonBundle(optMeta, optEntry) ==
    LET base == [resourceType |-> Str(<<"Bundle">>)]
        withMeta == IF optMeta = <<>> THEN base
                    ELSE With(base, "meta", optMeta[1])
    IN Obj(IF optEntry = <<>> THEN withMeta
           ELSE With(withMeta, "entry", optEntry[1]))

JsonBundles ==
    { JsonBundle(m, e) :
        m \in {<<>>} \cup { <<x>> : x \in JsonMetas },
        e \in {<<>>} \cup { <<x>> : x \in EmptyEntryLists } } \cup
    { JsonBundle(m, <<Arr(<<Obj([resource |-> r])>>)>>) :
        m \in {<<>>, <<Obj([profile |-> Arr(<<Str(Uri(tClaimResponse))>>)])>>},
        r \in JsonResources }

(***************************************************************************)
(* detectBundleMetadata on a parsed bundle                                 *)
(***************************************************************************)
\* mutant: the main resource is the resource of the last entry
ClassifierReads_LastEntry(json) ==
    LET profile ==
            OrElse(Eval(json, <<Dot("meta"), QDot("profile"), QAt(0)>>),
                   Str(<<>>))
        mainResource == Eval(json, <<Dot("entry"), QCall("pop", <<>>),
                                    QDot("resource")>>)
        mainResourceType == Eval(mainResource, <<QDot("resourceType")>>)
        mainResourceProfile ==
            OrElse(Eval(mainResource,
                        <<QDot("meta"), QDot("profile"), QAt(0)>>),
                   Str(<<>>))
    IN [profile |-> profile,
        mainResource |-> mainResource,
        mainResourceType |-> mainResourceType,
        mainResourceProfile |-> mainResourceProfile,
        isResponse |->
            OrElse(Eval(mainResourceType,
                        <<QCall("includes", <<"Response">>)>>),
                   OrElse(Eval(profile, <<Call("includes", <<"Response">>)>>),
                          Eval(mainResourceProfile,
                               <<Call("includes", <<"Response">>)>>))),
        typeCode |-> Eval(mainResource, <<QDot("type"), QDot("coding"),
                                          QAt(0), QDot("code")>>),
        resourceCount |->
            OrElse(Eval(json, <<Dot("entry"), QDot("length")>>), Num(0))]

\* the values the classifier reads (part_001 lines 27-34, 98, 136)
ClassifierReads(json) ==
    LET profile ==
            OrElse(Eval(json, <<Dot("meta"), QDot("profile"), QAt(0)>>),
                   Str(<<>>))
        mainResource == Eval(json, <<Dot("entry"), QAt(0), QDot("resource")>>)
        mainResourceType == Eval(mainResource, <<QDot("resourceType")>>)
        mainResourceProfile ==
            OrElse(Eval(mainResource,
                        <<QDot("meta"), QDot("profile"), QAt(0)>>),
                   Str(<<>>))
    IN [profile |-> profile,
        mainResource |-> mainResource,
        mainResourceType |-> mainResourceType,
        mainResourceProfile |-> mainResourceProfile,
        isResponse |->
            OrElse(Eval(mainResourceType,
                        <<QCall("includes", <<"Response">>)>>),
                   OrElse(Eval(profile, <<Call("includes", <<"Response">>)>>),
                          Eval(mainResourceProfile,
                               <<Call("includes", <<"Response">>)>>))),
        typeCode |-> Eval(mainResource, <<QDot("type"), QDot("coding"),
                                          QAt(0), QDot("code")>>),
        resourceCount |->
            OrElse(Eval(json, <<Dot("entry"), QDot("length")>>), Num(0))]

\* the tokens of a string value, <<>> for undefined
TokensOf(v) == IF v.kind = "string" THEN v.text ELSE <<>>

\* the bundle these values describe
BundleRead(json) ==
    LET r == ClassifierReads(json)
        main == IF Nullish(r.mainResource) THEN <<>>
                ELSE <<PlainResource(
                         TokensOf(r.mainResourceType),
                         TokensOf(r.mainResourceProfile),
                         IF r.typeCode.kind = "string"
                         THEN Text(r.typeCode.text) ELSE Absent,
                         Absent)>>
    IN Bundle(TokensOf(r.profile),
              Eval(json, <<Dot("entry")>>).kind = "array",
              [i \in 1..r.resourceCount.value |->
                  Entry(IF i = 1 THEN main ELSE <<>>)])

\* detectBundleMetadata(JSON.parse(text)): raised, or the metadata
detectBundleMetadataJson(json) ==
    IF \E f \in DOMAIN ClassifierReads(json) :
           Raised(ClassifierReads(json)[f])
    THEN [raised |-> TRUE, value |-> <<>>]
    ELSE [raised |-> FALSE,
          value |-> <<detectBundleMetadata(BundleRead(json))>>]

(***************************************************************************)
(* workflow utilities: extractWorkflowContext                              *)
(***************************************************************************)
\* mutant: the patient reference is read without optional chaining
PatientId_Unguarded(mainResource) ==
    OrElse(Eval(mainResource,
                <<Dot("patient"), Dot("reference"),
                  Call("split", <<"/">>), Call("pop", <<>>)>>),
           Eval(mainResource,
                <<QDot("patient"), QDot("identifier"), QAt(0), QDot("value")>>))

\* mainResource?.patient?.reference?.split('/').pop() || ...identifier?.[0]?.value
PatientId(mainResource) ==
    OrElse(Eval(mainResource,
                <<QDot("patient"), QDot("reference"),
                  QCall("split", <<"/">>), Call("pop", <<>>)>>),
           Eval(mainResource,
                <<QDot("patient"), QDot("identifier"), QAt(0), QDot("value")>>))

\* insurer display || last segment of insurer reference || provider display
PayerId(mainResource) ==
    OrElse(Eval(mainResource, <<QDot("insurer"), QDot("display")>>),
           OrElse(Eval(mainResource,
                       <<QDot("insurer"), QDot("reference"),
                         QCall("split", <<"/">>), Call("pop", <<>>)>>),
                  Eval(mainResource, <<QDot("provider"), QDot("display")>>)))

RECURSIVE FindTotal(_)
\* total.find(t => t.category?.coding?.[0]?.code === 'submitted' || ... 'benefit')
FindTotal(items) ==
    IF items = <<>> THEN Undefined
    ELSE LET code == Eval(Head(items), <<Dot("category"), QDot("coding"),
                                         QAt(0), QDot("code")>>)
         IN IF Raised(code) THEN TypeError
            ELSE IF code.kind = "string"
                    /\ code.text \in {<<"submitted">>, <<"benefit">>}
            THEN Head(items)
            ELSE FindTotal(Tail(items))

\* lines 531-542
TotalAmount(mainResource) ==
    LET total == Eval(mainResource, <<QDot("total")>>) IN
    IF Raised(total) THEN TypeError
    ELSE IF ~Truthy(total) THEN Null
    ELSE IF total.kind = "array"
    THEN Eval(FindTotal(total.items), <<QDot("amount")>>)
    ELSE LET value == Eval(total, <<Dot("value")>>)
         IN IF Raised(value) THEN TypeError
            ELSE IF Truthy(value) THEN total ELSE Null

\* extractWorkflowContext(bundle): raised, or the WorkflowContext
extractWorkflowContext(json) ==
    LET mainResource == Eval(json, <<QDot("entry"), QAt(0), QDot("resource")>>)
        context ==
            [workflowType |->
                 OrElse(Eval(mainResource, <<QDot("resourceType")>>),
                        Str(<<"unknown">>)),
             mainResource |-> mainResource,
             patientId |-> PatientId(mainResource),
             payerId |-> PayerId(mainResource),
             status |-> Eval(mainResource, <<QDot("status")>>),
             outcome |-> Eval(mainResource, <<QDot("outcome")>>),
             totalAmount |-> TotalAmount(mainResource)]
    IN IF \E f \in DOMAIN context : Raised(context[f])
       THEN [raised |-> TRUE, value |-> <<>>]
       ELSE [raised |-> FALSE, value |-> <<context>>]

(***************************************************************************)
(* Field extractors of SingleFHIRRenderer (part_006) and of                *)
(* MultiResourceRenderer (part_005); each component declares its own.      *)
(***************************************************************************)
NA == Str(<<"N/A">>)

\* the currency prefix as each file spells it: U+20B9 (RUPEE SIGN) in
\* part_005, the three characters U+00E2 U+201A U+00B9 in part_006
RupeeSign == "<U+20B9>"
RupeeSignMisencoded == "<U+00E2><U+201A><U+00B9>"

Single_formatDate(dateString) ==
    UnlessFalsy(dateString, NA, ToLocaleDateString(TemplateText(dateString)))

\* mutant: the code is preferred to the display
Single_renderCodeableConcept_CodeFirst(concept) ==
    UnlessFalsy(Eval(concept, <<QDot("coding"), QDot("length")>>), NA,
        OrElse(Eval(concept, <<Dot("coding"), At(0), Dot("code")>>),
               OrElse(Eval(concept, <<Dot("coding"), At(0), Dot("display")>>),
                      NA)))

Single_renderCodeableConcept(concept) ==
    UnlessFalsy(Eval(concept, <<QDot("coding"), QDot("length")>>), NA,
        OrElse(Eval(concept, <<Dot("coding"), At(0), Dot("display")>>),
               OrElse(Eval(concept, <<Dot("coding"), At(0), Dot("code")>>),
                      NA)))

Single_renderMoney(money) ==
    UnlessFalsy(Eval(money, <<QDot("value")>>), NA,
        Template(<<Str(<<RupeeSignMisencoded>>),
                   Eval(money, <<Dot("value"),
                                 Call("toLocaleString", <<"en-IN">>)>>)>>))

Single_renderPeriod(period) ==
    UnlessFalsy(period, NA,
        Template(<<Single_formatDate(Eval(period, <<Dot("start")>>)),
                   Str(<<" - ">>),
                   Single_formatDate(Eval(period, <<Dot("end")>>))>>))

Single_renderHumanName(names) ==
    UnlessFalsy(Eval(names, <<QDot("length")>>), NA,
        LET name == Eval(names, <<At(0)>>) IN
        OrElse(Eval(name, <<Dot("text")>>),
               OrElse(Eval(Template(<<OrElse(Eval(name, <<Dot("given"),
                                                  QCall("join", <<" ">>)>>),
                                             Str(<<>>)),
                                      Str(<<" ">>),
                                      OrElse(Eval(name, <<Dot("family")>>),
                                             Str(<<>>))>>),
                           <<Call("trim", <<>>)>>),
                      NA)))

Single_renderIdentifiers(identifiers) ==
    UnlessFalsy(Eval(identifiers, <<QDot("length")>>), NA,
        LET texts ==
                [i \in 1..Len(identifiers.items) |->
                    Template(<<Eval(identifiers.items[i],
                                    <<Dot("system"), QCall("split", <<"/">>),
                                      Call("pop", <<>>)>>),
                               Str(<<": ">>),
                               Eval(identifiers.items[i], <<Dot("value")>>)>>)]
        IN IF \E i \in 1..Len(texts) : Raised(texts[i]) THEN TypeError
           ELSE Str(Join(texts, <<", ">>)))

Multi_formatDate(dateString) ==
    UnlessFalsy(dateString, NA, ToLocaleDateString(TemplateText(dateString)))

Multi_renderCodeableConcept(concept) ==
    UnlessFalsy(Eval(concept, <<QDot("coding"), QDot("length")>>), NA,
        OrElse(Eval(concept, <<Dot("coding"), At(0), Dot("display")>>),
               OrElse(Eval(concept, <<Dot("coding"), At(0), Dot("code")>>),
                      NA)))

Multi_renderMoney(money) ==
    UnlessFalsy(Eval(money, <<QDot("value")>>), NA,
        Template(<<Str(<<RupeeSign>>),
                   Eval(money, <<Dot("value"),
                                 Call("toLocaleString", <<"en-IN">>)>>)>>))

Multi_renderPeriod(period) ==
    UnlessFalsy(period, NA,
        Template(<<Multi_formatDate(Eval(period, <<Dot("start")>>)),
                   Str(<<" - ">>),
                   Multi_formatDate(Eval(period, <<Dot("end")>>))>>))

Multi_renderHumanName(names) ==
    UnlessFalsy(Eval(names, <<QDot("length")>>), NA,
        LET name == Eval(names, <<At(0)>>) IN
        OrElse(Eval(name, <<Dot("text")>>),
               OrElse(Eval(Template(<<OrElse(Eval(name, <<Dot("given"),
                                                  QCall("join", <<" ">>)>>),
                                             Str(<<>>)),
                                      Str(<<" ">>),
                                      OrElse(Eval(name, <<Dot("family")>>),
                                             Str(<<>>))>>),
                           <<Call("trim", <<>>)>>),
                      NA)))

Multi_renderIdentifiers(identifiers) ==
    UnlessFalsy(Eval(identifiers, <<QDot("length")>>), NA,
        LET texts ==
                [i \in 1..Len(identifiers.items) |->
                    Template(<<Eval(identifiers.items[i],
                                    <<Dot("system"), QCall("split", <<"/">>),
                                      Call("pop", <<>>)>>),
                               Str(<<": ">>),
                               Eval(identifiers.items[i], <<Dot("value")>>)>>)]
        IN IF \E i \in 1..Len(texts) : Raised(texts[i]) THEN TypeError
           ELSE Str(Join(texts, <<", ">>)))

\* the extractor a component applies to a value of the given FHIR datatype
SingleFHIRRenderer(type, value) ==
    CASE type = "CodeableConcept" -> Single_renderCodeableConcept(value)
      [] type = "Money" -> Single_renderMoney(value)
      [] type = "Period" -> Single_renderPeriod(value)
      [] type = "HumanName" -> Single_renderHumanName(value)
      [] OTHER -> Single_renderIdentifiers(value)

MultiResourceRenderer(type, value) ==
    CASE type = "CodeableConcept" -> Multi_renderCodeableConcept(value)
      [] type = "Money" -> Multi_renderMoney(value)
      [] type = "Period" -> Multi_renderPeriod(value)
      [] type = "HumanName" -> Multi_renderHumanName(value)
      [] OTHER -> Multi_renderIdentifiers(value)

(***************************************************************************)
(* Values of the FHIR datatypes the extractors take                        *)
(***************************************************************************)
\* every way of leaving out fields of a record, `always` kept
Partial(rec, always) ==
    { Obj(Keep(rec, present \cup always)) :
        present \in SUBSET (DOMAIN rec \ always) }

Codings ==
    Partial([system |-> Str(<<"snomed">>), display |-> Str(<<"Consultation">>),
             code |-> Str(<<"C001">>)], {"system"}) \cup
    {Obj([display |-> Str(<<>>), code |-> Str(<<"C001">>)]),
     Obj([display |-> Str(<<>>), code |-> Str(<<>>)]),
     Obj([display |-> Str(<<"Consultation">>), code |-> Str(<<>>)])}

OtherCoding == Obj([display |-> Str(<<"Surgery">>), code |-> Str(<<"S900">>)])

CodeableConcepts ==
    {Undefined, Obj([text |-> Str(<<"free text">>)]),
     Obj([coding |-> Arr(<<>>)])} \cup
    { Obj([coding |-> Arr(<<c>>)]) : c \in Codings } \cup
    { Obj([coding |-> Arr(<<c, OtherCoding>>)]) : c \in Codings }

Moneys ==
    {Undefined, Obj([currency |-> Str(<<"INR">>)])} \cup
    { Obj([value |-> Num(n), currency |-> Str(<<"INR">>)]) :
        n \in {0, 500, 1000, 150000, 12345678} }

DateStrings ==
    {Str(<<>>), Str(<<"2024", "-", "01", "-", "15">>),
     Str(<<"2023", "-", "12", "-", "05">>), Str(<<"soon">>)}

Periods ==
    {Undefined} \cup
    UNION { Partial([id |-> Str(<<"p">>), start |-> a, end |-> b], {"id"}) :
            a \in DateStrings, b \in DateStrings }

HumanNames ==
    UNION { Partial([use |-> Str(<<"official">>), text |-> t,
                     given |-> g, family |-> f], {"use"}) :
            t \in {Str(<<>>), Str(<<"Dr", " ", "Asha", " ", "Rao">>)},
            g \in {Arr(<<>>), Arr(<<Str(<<"Asha">>)>>),
                    Arr(<<Str(<<"Asha">>), Str(<<"K">>)>>)},
            f \in {Str(<<>>), Str(<<"Rao">>)} }

HumanNameLists ==
    {Undefined, Arr(<<>>)} \cup { Arr(<<n>>) : n \in HumanNames } \cup
    { Arr(<<n, Obj([text |-> Str(<<"Other">>)])>>) : n \in HumanNames }

Identifiers ==
    UNION { Partial([use |-> Str(<<"usual">>), system |-> sys,
                     value |-> Str(<<"91-1">>)], {"use"}) :
            sys \in {Str(<<>>),
                      Str(<<"https:", "/", "/", "abdm", "/", "abha">>)} }

IdentifierLists ==
    {Undefined, Arr(<<>>)} \cup { Arr(<<i>>) : i \in Identifiers } \cup
    { Arr(<<i, j>>) : i \in Identifiers, j \in Identifiers }

\* the arguments of the extractors, with their datatype
ExtractorInputs ==
    { [type |-> "CodeableConcept", value |-> v] : v \in CodeableConcepts } \cup
    { [type |-> "Money", value |-> v] : v \in Moneys } \cup
    { [type |-> "Period", value |-> v] : v \in Periods } \cup
    { [type |-> "HumanName", value |-> v] : v \in HumanNameLists } \cup
    { [type |-> "Identifier", value |-> v] : v \in IdentifierLists }

(***************************************************************************)
(* workflow utilities: stage tables                                        *)
(***************************************************************************)
\* the identifiers handed to the stage utilities that are no stage: the
\* empty string, bare and unknown members of each prefix, another case,
\* another prefix, and names every object inherits from Object.prototype
OtherIds ==
    {"", "CE", "CE03", "PA07", "CL00", "CL08", "IP03", "ce01", "XX01",
     "constructor", "toString", "valueOf", "hasOwnProperty"}

\* workflowId.startsWith(prefix), over the identifiers above and the stages
StartsWith(workflowId, prefix) ==
    workflowId \in
        CASE prefix = "CE" -> {"CE01", "CE02", "CE", "CE03"}
          [] prefix = "PA" ->
                {"PA01", "PA02", "PA03", "PA04", "PA05", "PA06", "PA07"}
          [] prefix = "CL" ->
                {"CL01", "CL02", "CL03", "CL04", "CL05", "CL06", "CL07",
                 "CL00", "CL08"}
          [] prefix = "IP" -> {"IP01", "IP02", "IP03"}

\* a stage of a table; next is <<>> for null
Stage(label, status, next) ==
    [label |-> label, status |-> status, next |-> next]

NHCX_WORKFLOWS ==
    [ELIGIBILITY |->
        [CE01 |-> Stage("Request Initiated", "initiated", <<"CE02">>),
         CE02 |-> Stage("Response Received", "complete", <<>>)],
     PREAUTH |->
        [PA01 |-> Stage("Pre-Auth Submitted", "initiated", <<"PA02">>),
         PA02 |-> Stage("Information Requested", "info_required",
                        <<"PA03">>),
         PA03 |-> Stage("Information Submitted", "processing", <<"PA04">>),
         PA04 |-> Stage("Approved", "approved", <<>>),
         PA05 |-> Stage("Rejected", "rejected", <<>>),
         PA06 |-> Stage("Partially Approved", "partial", <<>>)],
     CLAIM |->
        [CL01 |-> Stage("Claim Submitted", "initiated", <<"CL02">>),
         CL02 |-> Stage("Information Requested", "info_required",
                        <<"CL03">>),
         CL03 |-> Stage("Information Submitted", "processing", <<"CL04">>),
         CL04 |-> Stage("Approved", "approved", <<"CL07">>),
         CL05 |-> Stage("Rejected", "rejected", <<>>),
         CL06 |-> Stage("Partially Approved", "partial", <<"CL07">>),
         CL07 |-> Stage("Payment Notice Issued", "payment", <<>>)],
     PLAN |->
        [IP01 |-> Stage("Plan Request Initiated", "initiated", <<"IP02">>),
         IP02 |-> Stage("Plan Details Received", "complete", <<>>)]]

\* the stage identifiers of all four tables
StageIds == UNION { DOMAIN NHCX_WORKFLOWS[w] : w \in DOMAIN NHCX_WORKFLOWS }

\* the properties every object literal inherits from Object.prototype, as
\* far as the identifiers above name them
ObjectPrototype ==
    [constructor |-> Fn("Object"), toString |-> Fn("toString"),
     valueOf |-> Fn("valueOf"), hasOwnProperty |-> Fn("hasOwnProperty")]

\* table[workflowId] || null on a table of stages: <<>> is null.  No
\* inherited property name starts with CE, PA, CL or IP, so the read finds
\* an own stage or undefined.
StageOrNull(table, workflowId) ==
    IF workflowId \in DOMAIN table THEN <<table[workflowId]>> ELSE <<>>

\* mutant: PA03 leads to the rejected stage
getWorkflowStage_RejectAfterInfo(workflowId) ==
    IF workflowId = "PA03"
    THEN <<[NHCX_WORKFLOWS.PREAUTH.PA03 EXCEPT !.next = <<"PA05">>]>>
    ELSE IF StartsWith(workflowId, "CE")
    THEN StageOrNull(NHCX_WORKFLOWS.ELIGIBILITY, workflowId)
    ELSE IF StartsWith(workflowId, "PA")
    THEN StageOrNull(NHCX_WORKFLOWS.PREAUTH, workflowId)
    ELSE IF StartsWith(workflowId, "CL")
    THEN StageOrNull(NHCX_WORKFLOWS.CLAIM, workflowId)
    ELSE IF StartsWith(workflowId, "IP")
    THEN StageOrNull(NHCX_WORKFLOWS.PLAN, workflowId)
    ELSE <<>>

\* mutant: the payment stage leads back to the approved stage
getWorkflowStage_PaymentLoops(workflowId) ==
    IF workflowId = "CL07"
    THEN <<[NHCX_WORKFLOWS.CLAIM.CL07 EXCEPT !.next = <<"CL04">>]>>
    ELSE IF StartsWith(workflowId, "CE")
    THEN StageOrNull(NHCX_WORKFLOWS.ELIGIBILITY, workflowId)
    ELSE IF StartsWith(workflowId, "PA")
    THEN StageOrNull(NHCX_WORKFLOWS.PREAUTH, workflowId)
    ELSE IF StartsWith(workflowId, "CL")
    THEN StageOrNull(NHCX_WORKFLOWS.CLAIM, workflowId)
    ELSE IF StartsWith(workflowId, "IP")
    THEN StageOrNull(NHCX_WORKFLOWS.PLAN, workflowId)
    ELSE <<>>

\* the stage of workflowId in the table its prefix selects, <<>> for null
getWorkflowStage(workflowId) ==
    IF StartsWith(workflowId, "CE")
    THEN StageOrNull(NHCX_WORKFLOWS.ELIGIBILITY, workflowId)
    ELSE IF StartsWith(workflowId, "PA")
    THEN StageOrNull(NHCX_WORKFLOWS.PREAUTH, workflowId)
    ELSE IF StartsWith(workflowId, "CL")
    THEN StageOrNull(NHCX_WORKFLOWS.CLAIM, workflowId)
    ELSE IF StartsWith(workflowId, "IP")
    THEN StageOrNull(NHCX_WORKFLOWS.PLAN, workflowId)
    ELSE <<>>

progressMap ==
    [CE01 |-> 50, CE02 |-> 100,
     PA01 |-> 20, PA02 |-> 40, PA03 |-> 60,
     PA04 |-> 100, PA05 |-> 100, PA06 |-> 100,
     CL01 |-> 15, CL02 |-> 30, CL03 |-> 50, CL04 |-> 85,
     CL05 |-> 100, CL06 |-> 85, CL07 |-> 100,
     IP01 |-> 50, IP02 |-> 100]

\* progressMap[workflowId]: progressMap is an object literal, so the read
\* finds an own property, else a property inherited from Object.prototype,
\* else undefined
ProgressMapRead(workflowId) ==
    IF workflowId \in DOMAIN progressMap THEN Num(progressMap[workflowId])
    ELSE IF workflowId \in DOMAIN ObjectPrototype
    THEN ObjectPrototype[workflowId]
    ELSE Undefined

\* mutant: the table rows of CL01 and PA01 are exchanged
getProgressPercentage_Swapped(workflowId) ==
    IF workflowId = "CL01" THEN Num(progressMap["PA01"])
    ELSE IF workflowId = "PA01" THEN Num(progressMap["CL01"])
    ELSE OrElse(ProgressMapRead(workflowId), Num(0))

\* mutant: an approved claim counts as complete
getProgressPercentage_ApprovedComplete(workflowId) ==
    IF workflowId = "CL04" THEN Num(100)
    ELSE OrElse(ProgressMapRead(workflowId), Num(0))

\* progressMap[workflowId] || 0
getProgressPercentage(workflowId) ==
    OrElse(ProgressMapRead(workflowId), Num(0))

\* a suggested action; route is <<>> when the action has none
NextAction(label, route) == [label |-> label, route |-> route]

\* the status strings handed to getNextActions: the eight of the stage
\* tables, the empty string and one that no table uses
Statuses ==
    {"initiated", "processing", "info_required", "approved", "partial",
     "rejected", "payment", "complete", "", "cancelled"}

\* mutant: documents are suggested only while the status asks for them
getNextActions_DocumentsByStatus(workflowId, status) ==
    (IF workflowId = "CE02" /\ status = "complete"
     THEN <<NextAction("Submit Pre-Auth", <<"/preauth/new">>)>> ELSE <<>>)
    \o (IF workflowId \in {"PA04", "PA06"} /\ status = "approved"
        THEN <<NextAction("Submit Claim", <<"/claim/new">>)>> ELSE <<>>)
    \o (IF workflowId \in {"PA02", "CL02"} /\ status = "info_required"
        THEN <<NextAction("Submit Documents", <<"/documents/upload">>)>>
        ELSE <<>>)
    \o <<NextAction("View FHIR Bundle", <<>>)>>

\* actions = []; three conditional pushes; the push of the universal action
getNextActions(workflowId, status) ==
    (IF workflowId = "CE02" /\ status = "complete"
     THEN <<NextAction("Submit Pre-Auth", <<"/preauth/new">>)>> ELSE <<>>)
    \o (IF (workflowId = "PA04" \/ workflowId = "PA06") /\ status = "approved"
        THEN <<NextAction("Submit Claim", <<"/claim/new">>)>> ELSE <<>>)
    \o (IF workflowId = "PA02" \/ workflowId = "CL02"
        THEN <<NextAction("Submit Documents", <<"/documents/upload">>)>>
        ELSE <<>>)
    \o <<NextAction("View FHIR Bundle", <<>>)>>

(***************************************************************************)
(* FHIRRenderer: workflow stage derivation                                 *)
(***************************************************************************)
\* mutant: the eligibility stage test is inverted (a response gets CE01)
WorkflowStage_EligibilityInverted(b) ==
    LET t == MainResourceType(b) IN
    IF t = tCERequest \/ t = tCEResponse
    THEN [workflowType |-> "ELIGIBILITY",
          currentStage |-> IF t = tCEResponse THEN "CE01" ELSE "CE02"]
    ELSE [workflowType |-> "none", currentStage |-> ""]

\* [workflowType, currentStage] of the main resource; workflowType "none"
\* is the code's null, currentStage "" its initial value
WorkflowStage(b) ==
    LET t == MainResourceType(b)
        none == [workflowType |-> "none", currentStage |-> ""]
    IN
    IF MainResource(b) = <<>> THEN none
    ELSE LET r == MainResource(b)[1] IN
    IF t = tCERequest \/ t = tCEResponse
    THEN [workflowType |-> "ELIGIBILITY",
          currentStage |-> IF t = tCEResponse THEN "CE02" ELSE "CE01"]
    ELSE IF t = tClaim \/ t = tClaimResponse
    THEN IF r.typeCode = "preauthorization"
         THEN [workflowType |-> "PREAUTH",
               currentStage |-> IF t = tClaimResponse THEN "PA04" ELSE "PA01"]
         ELSE [workflowType |-> "CLAIM",
               currentStage |->
                   LET outcome == ToLowerCase(r.outcome) IN
                   IF outcome = "complete" THEN "CL04"
                   ELSE IF outcome = "partial" THEN "CL06"
                   ELSE "CL01"]
    ELSE IF t = tInsurancePlan
    THEN [workflowType |-> "PLAN", currentStage |-> "IP02"]
    ELSE none

(***************************************************************************)
(* FHIRRenderer: aggregators                                               *)
(***************************************************************************)
\* number of items the service breakdown takes: item.slice(0, 10)
ItemLimit == 10

RECURSIVE FindAmount(_, _)
\* list.find(a => a.category?.coding?.[0]?.code === code)?.amount?.value
FindAmount(list, code) ==
    IF list = <<>> THEN <<>>
    ELSE IF Head(list).code = code THEN Head(list).value
    ELSE FindAmount(Tail(list), code)

\* item.adjudication?.find(...)?.amount?.value
ItemAmount(item, code) ==
    IF item.adjudication = <<>> THEN <<>>
    ELSE FindAmount(item.adjudication[1], code)

\* mutant: `<=` instead of `<` in the reduced test
ItemStatus_ReducedOnEqual(item) ==
    LET submitted == OrZero(ItemAmount(item, "submitted"))
        benefit == OrZero(ItemAmount(item, "benefit"))
    IN IF benefit = 0 THEN "rejected"
       ELSE IF benefit <= submitted THEN "reduced"
       ELSE "approved"

\* status of one breakdown row
ItemStatus(item) ==
    LET submitted == OrZero(ItemAmount(item, "submitted"))
        benefit == OrZero(ItemAmount(item, "benefit"))
    IN IF benefit = 0 THEN "rejected"
       ELSE IF benefit < submitted THEN "reduced"
       ELSE "approved"

\* one row of the ServiceBreakdown
BreakdownRow(item) ==
    [requested |-> ItemAmount(item, "submitted"),
     approved |-> ItemAmount(item, "benefit"),
     status |-> ItemStatus(item)]

\* Array.prototype.slice(0, n)
SliceFirst(list, n) == SubSeq(list, 1, IF Len(list) < n THEN Len(list) ELSE n)

\* mutant: the slice keeps one item fewer
BreakdownRows_ShortSlice(b) ==
    IF MainResource(b) = <<>> THEN <<>>
    ELSE LET r == MainResource(b)[1] IN
         IF r.resourceType = tClaimResponse /\ r.item # <<>>
            /\ Len(r.item[1]) > 0
         THEN LET shown == SliceFirst(r.item[1], ItemLimit - 1)
              IN [i \in 1..Len(shown) |-> BreakdownRow(shown[i])]
         ELSE <<>>

\* rows of the ServiceBreakdown; <<>> when the component is not rendered
BreakdownRows(b) ==
    IF MainResource(b) = <<>> THEN <<>>
    ELSE LET r == MainResource(b)[1] IN
         IF r.resourceType = tClaimResponse /\ r.item # <<>>
            /\ Len(r.item[1]) > 0
         THEN LET shown == SliceFirst(r.item[1], ItemLimit)
              IN [i \in 1..Len(shown) |-> BreakdownRow(shown[i])]
         ELSE <<>>

\* mutant: an absent amount is shown as 0 (`|| 0`), one side suffices
Comparison_ZeroDefault(b) ==
    IF MainResource(b) = <<>> THEN <<>>
    ELSE LET r == MainResource(b)[1] IN
         IF r.resourceType = tClaimResponse /\ r.total # <<>>
         THEN LET requested == FindAmount(r.total[1], "submitted")
                  approved == FindAmount(r.total[1], "benefit")
              IN IF OrZero(requested) # 0 \/ OrZero(approved) # 0
                 THEN <<[requested |-> OrZero(requested),
                         approved |-> OrZero(approved)]>>
                 ELSE <<>>
         ELSE <<>>

\* the AmountComparison: shown when requested && approved
Comparison(b) ==
    IF MainResource(b) = <<>> THEN <<>>
    ELSE LET r == MainResource(b)[1] IN
         IF r.resourceType = tClaimResponse /\ r.total # <<>>
         THEN LET requested == FindAmount(r.total[1], "submitted")
                  approved == FindAmount(r.total[1], "benefit")
              IN IF OrZero(requested) # 0 /\ OrZero(approved) # 0
                 THEN <<[requested |-> requested[1], approved |-> approved[1]]>>
                 ELSE <<>>
         ELSE <<>>

RECURSIVE FindPlan(_)
\* entry.find(e => e.resource?.resourceType === 'InsurancePlan')?.resource
FindPlan(entries) ==
    IF entries = <<>> THEN <<>>
    ELSE IF Head(entries).resource # <<>>
            /\ Head(entries).resource[1].resourceType = tInsurancePlan
    THEN Head(entries).resource
    ELSE FindPlan(Tail(entries))

\* coverage.benefit?.length || 0
BenefitCount(coverage) ==
    IF coverage.benefit = <<>> THEN 0 ELSE Len(coverage.benefit[1])

RECURSIVE SumBenefitCounts(_)
\* coverage.reduce((total, c) => total + (c.benefit?.length || 0), 0)
SumBenefitCounts(coverages) ==
    IF coverages = <<>> THEN 0
    ELSE BenefitCount(Head(coverages)) + SumBenefitCounts(Tail(coverages))

\* mutant: only the first coverage is counted
TotalServices_FirstOnly(plan) ==
    IF plan.coverage = <<>> \/ plan.coverage[1] = <<>> THEN 0
    ELSE BenefitCount(plan.coverage[1][1])

\* "Total Services": plan?.coverage?.reduce(...) || 0
TotalServices(plan) ==
    IF plan.coverage = <<>> THEN 0 ELSE SumBenefitCounts(plan.coverage[1])

\* the benefit summary of the bundle information panel: a count; <<>> when
\* no entry of the bundle is an InsurancePlan
BenefitSummary(b) ==
    IF ~b.hasEntry \/ FindPlan(b.entry) = <<>> THEN <<>>
    ELSE <<[count |-> TotalServices(FindPlan(b.entry)[1])]>>

\* the render raises a TypeError: mainResource.total.find is not a function
\* when the ClaimResponse's total is an object (line 765), and ResourceCard
\* reads resource.resourceType of an entry that wraps no resource (line 458,
\* called with entry.resource! at line 796)
RenderRaises(b) ==
    /\ ResourceCount(b) > 0
    /\ \/ /\ MainResource(b) # <<>>
          /\ MainResource(b)[1].resourceType = tClaimResponse
          /\ MainResource(b)[1].totalObject # <<>>
       \/ \E i \in 1..Len(b.entry) : b.entry[i].resource = <<>>

\* the view FHIRRenderer derives from bundleData; the workflow section
\* (timeline, breakdown, comparison) is rendered only when the bundle has
\* at least one entry; raised: the render ended with an exception
RenderView(b) ==
    IF ResourceCount(b) > 0
    THEN [section |-> TRUE,
          workflowType |-> WorkflowStage(b).workflowType,
          currentStage |-> WorkflowStage(b).currentStage,
          rows |-> BreakdownRows(b),
          comparison |-> Comparison(b),
          benefitSummary |-> BenefitSummary(b),
          raised |-> RenderRaises(b)]
    ELSE [section |-> FALSE, workflowType |-> "none", currentStage |-> "",
          rows |-> <<>>, comparison |-> <<>>,
          benefitSummary |-> BenefitSummary(b),
          raised |-> FALSE]

(***************************************************************************)
(* The pipeline: a bundle's content is classified when it is listed, then  *)
(* the bundle is selected and rendered.                                    *)
(***************************************************************************)
\* variables of the listing, of the stage walk and of the utility functions
listingVars == <<listing>>
stageVars == <<walk, progress>>
utilityVars == <<input, output>>
pipelineVars == <<bundle, meta, view, pc>>

\* their values while the part of the program they belong to is not running
Idle ==
    /\ listing = [type |-> "local", listed |-> <<>>]
    /\ walk = <<>>
    /\ progress = <<>>
    /\ input = <<>>
    /\ output = <<>>

Init ==
    /\ bundle \in ClassifierBundles
    /\ meta = <<>>
    /\ view = <<>>
    /\ pc = "loaded"
    /\ Idle

\* listBundles: metadata = detectBundleMetadata(content)
Classify ==
    /\ pc = "loaded"
    /\ meta' = <<detectBundleMetadata(bundle)>>
    /\ pc' = "classified"
    /\ UNCHANGED <<bundle, view, listingVars, stageVars, utilityVars>>

\* FHIRRenderer render with bundleData and selectedFileInfo set
Render ==
    /\ pc = "classified"
    /\ view' = <<RenderView(bundle)>>
    /\ pc' = "rendered"
    /\ UNCHANGED <<bundle, meta, listingVars, stageVars, utilityVars>>

Next == Classify \/ Render

Spec == Init /\ [][Next]_vars

\* the same pipeline over the bundles that exercise the aggregators
InitAggregate ==
    /\ bundle \in AggregateBundles
    /\ meta = <<>>
    /\ view = <<>>
    /\ pc = "loaded"
    /\ Idle

SpecAggregate == InitAggregate /\ [][Next]_vars

(***************************************************************************)
(* The data service over time: contents are classified while the listing   *)
(* runs in local mode, bundles are loaded into the renderer and the data   *)
(* source is switched, in any order.                                       *)
(***************************************************************************)
\* contents served under the candidate file names
ListingBundles ==
    {OneEntryBundle(PlainResource(tClaim, <<>>, "institutional", Absent)),
     OneEntryBundle(PlainResource(tClaimResponse, <<>>, "preauthorization",
                                  "complete")),
     Bundle(Uri(<<"PreAuth">>), TRUE,
            <<Entry(<<PlainResource(tObservation, <<>>, Absent, Absent)>>),
              Entry(<<PatientResource>>)>>),
     Bundle(Uri(tCEResponse), FALSE, <<>>)}

InitListing ==
    /\ bundle \in ListingBundles
    /\ meta = <<>>
    /\ view = <<>>
    /\ pc = "listing"
    /\ listing = [type |-> "local", listed |-> <<>>]
    /\ walk = <<>>
    /\ progress = <<>>
    /\ input = <<>>
    /\ output = <<>>

\* listBundlesFromLocal, one candidate: metadata = detectBundleMetadata(data)
ClassifyContent(b) ==
    /\ listing.type = "local"
    /\ Len(listing.listed) < MaxClassified
    /\ meta' = <<detectBundleMetadata(b)>>
    /\ listing' = [listing EXCEPT !.listed =
                      Append(@, [content |-> b, loaded |-> bundle,
                                 metadata |-> detectBundleMetadata(b)])]
    /\ UNCHANGED <<bundle, view, pc, stageVars, utilityVars>>

\* loadBundle + setBundleData: the renderer holds another bundle
LoadBundle(b) ==
    /\ bundle' = b
    /\ b # bundle
    /\ UNCHANGED <<meta, view, pc, listingVars, stageVars, utilityVars>>

\* dataSourceConfig.useLocal / useApi
UseDataSource(mode) ==
    /\ listing.type # mode
    /\ listing' = [listing EXCEPT !.type = mode]
    /\ UNCHANGED <<pipelineVars, stageVars, utilityVars>>

NextListing ==
    \/ \E b \in ListingBundles : ClassifyContent(b)
    \/ \E b \in ListingBundles : LoadBundle(b)
    \/ \E mode \in {"local", "api"} : UseDataSource(mode)

SpecListing == InitListing /\ [][NextListing]_vars

(***************************************************************************)
(* listBundles in local mode: every candidate file name is requested from  *)
(* the resource path and, when the answer is not ok, from the root path;   *)
(* the body of an ok answer is parsed and classified; the list is sorted.  *)
(***************************************************************************)
patterns ==
    <<"authRequirementsReq.json", "authRequirementsResp.json",
      "claimReq.json", "claimResp.json",
      "claimStatusReq.json", "claimStatusResp.json",
      "eligibilityCheckReq.json", "eligibilityCheckResp.json",
      "insurancePlanReq.json", "insurancePlanResp.json",
      "preAuthReq.json", "preAuthResp.json",
      "coverageReq.json", "coverageResp.json">>

\* a response body: response.json() rejects (parses = FALSE) or delivers json
Body(parses, json) == [parses |-> parses, json |-> json]

NoBody == Body(FALSE, Undefined)

\* the bodies served: text that is no JSON, the JSON text null, a bundle
\* with a ClaimResponse, and a bundle that has only the profile of a
\* CoverageEligibilityResponse
ClaimResponseBody ==
    Body(TRUE, JsonBundle(<<>>, <<Arr(<<Obj([resource |->
                     Obj([resourceType |-> Str(tClaimResponse)])])>>)>>))

EligibilityBody ==
    Body(TRUE, JsonBundle(
                 <<Obj([profile |-> Arr(<<Str(Uri(tCEResponse))>>)])>>,
                 <<>>))

Bodies == {NoBody, Body(TRUE, Null), ClaimResponseBody, EligibilityBody}

\* what the two fetches of one candidate do: answer ok, answer not ok, or
\* raise; root is "unasked" when the second fetch is not made
Answer(primary, root, body) ==
    [primary |-> primary, root |-> root, body |-> body]

\* the file is nowhere: both requests are answered 404
Missing == Answer("notok", "notok", NoBody)

Answers ==
    {Missing, Answer("raises", "unasked", NoBody)} \cup
    { Answer("ok", "unasked", body) : body \in Bodies \ {EligibilityBody} }
    \cup {Answer("notok", "ok", EligibilityBody)}

\* detectBundleMetadata(data) for each body that parses: raised, or the
\* metadata
BodyMetadata ==
    [body \in { b \in Bodies : b.parses } |->
        detectBundleMetadataJson(body.json)]

\* mutant: the root path is never asked
CandidateItems_NoRootFallback(filename, answer) ==
    IF answer.primary = "ok" /\ answer.body.parses
          /\ ~BodyMetadata[answer.body].raised
    THEN LET metadata == BodyMetadata[answer.body].value[1]
         IN <<[id |-> filename, name |-> filename, title |-> metadata.title,
               description |-> metadata.description, type |-> metadata.type,
               workflow |-> metadata.workflow,
               resourceCount |-> metadata.resourceCount]>>
    ELSE <<>>

\* the body of the loop for one candidate: the item pushed, if any.  An
\* exception of fetch, of response.json() or of detectBundleMetadata is
\* caught and nothing is pushed.
CandidateItems(filename, answer) ==
    LET raised == \/ answer.primary = "raises"
                  \/ answer.primary = "notok" /\ answer.root = "raises"
        ok == \/ answer.primary = "ok"
              \/ answer.primary = "notok" /\ answer.root = "ok"
    IN IF raised \/ ~ok THEN <<>>
       ELSE IF ~answer.body.parses THEN <<>>
       ELSE IF BodyMetadata[answer.body].raised THEN <<>>
       ELSE LET metadata ==
                    BodyMetadata[answer.body].value[1]
            IN <<[id |-> filename, name |-> filename,
                  title |-> metadata.title,
                  description |-> metadata.description,
                  type |-> metadata.type,
                  workflow |-> metadata.workflow,
                  resourceCount |-> metadata.resourceCount]>>

\* the titles and workflows of the classifier in the order localeCompare
\* gives them
Collation ==
    <<"Claim Processing", "Claim Request", "Claim Response", "Claim Status",
      "Claim Status Check", "Coverage Information",
      "Eligibility Check Request", "Eligibility Check Response",
      "Eligibility Verification", "FHIR Bundle", "Insurance Plan",
      "Insurance Plan Discovery", "NHCX Workflow", "Pre-Authorization",
      "Pre-Authorization Request", "Pre-Authorization Response">>

\* a.localeCompare(b): negative, zero or positive
localeCompare(a, b) ==
    (CHOOSE i \in 1..Len(Collation) : Collation[i] = a)
        - (CHOOSE i \in 1..Len(Collation) : Collation[i] = b)

\* the comparator of bundles.sort
CompareBundles(a, b) ==
    IF a.workflow # b.workflow THEN localeCompare(a.workflow, b.workflow)
    ELSE IF a.type # b.type THEN (IF a.type = "request" THEN -1 ELSE 1)
    ELSE localeCompare(a.title, b.title)

RECURSIVE InsertSorted(_, _)
\* item placed behind every element that does not compare greater
InsertSorted(item, sorted) ==
    IF sorted = <<>> THEN <<item>>
    ELSE IF CompareBundles(item, Head(sorted)) < 0 THEN <<item>> \o sorted
    ELSE <<Head(sorted)>> \o InsertSorted(item, Tail(sorted))

RECURSIVE SortBundles(_)
\* Array.prototype.sort with the comparator above (the sort is stable)
SortBundles(items) ==
    IF items = <<>> THEN <<>>
    ELSE InsertSorted(items[Len(items)],
                      SortBundles(SubSeq(items, 1, Len(items) - 1)))

\* the candidates whose file is somewhere, among those asked so far
Served == { i \in 1..Len(input) : input[i] # Missing }

InitLocalList ==
    /\ listing = [type |-> "local", listed |-> <<>>]
    /\ input = <<>>
    /\ output = <<>>
    /\ pc = "listing-local"
    /\ bundle = <<>>
    /\ meta = <<>>
    /\ view = <<>>
    /\ walk = <<>>
    /\ progress = <<>>

\* one turn of the loop of listBundlesFromLocal: the next candidate
TryCandidate(answer) ==
    /\ pc = "listing-local"
    /\ listing.type = "local"
    /\ Len(input) < Len(patterns)
    /\ answer = Missing \/ Cardinality(Served) < MaxServed
    /\ input' = Append(input, answer)
    /\ listing' = [listing EXCEPT !.listed =
                      @ \o CandidateItems(patterns[Len(input) + 1], answer)]
    /\ UNCHANGED <<output, pipelineVars, stageVars>>

\* listBundles: the loop is over; bundles.sort(...); return bundles
ReturnBundles ==
    /\ pc = "listing-local"
    /\ Len(input) = Len(patterns)
    /\ output' = <<SortBundles(listing.listed)>>
    /\ pc' = "listed"
    /\ UNCHANGED <<bundle, meta, view, listing, input, stageVars>>

NextLocalList ==
    \/ \E answer \in Answers : TryCandidate(answer)
    \/ ReturnBundles

SpecLocalList == InitLocalList /\ [][NextLocalList]_vars

(***************************************************************************)
(* FHIRRenderer, the component state over time: the list of bundles is     *)
(* requested on mount; a click selects a file and starts its load; the     *)
(* requests complete in any order.  view holds the component state         *)
(* (files, selectedFile, bundleData, loading, error), input the requests   *)
(* in flight and the number of loads started.  The data of a file is       *)
(* written as the file's name.                                             *)
(***************************************************************************)
\* what listBundles may deliver
FileLists ==
    {<<>>, <<"claimReq.json", "claimResp.json", "preAuthReq.json">>}

\* a request in flight: the listing, or the load of a bundle
Request(n, what, identifier) ==
    [n |-> n, what |-> what, identifier |-> identifier]

\* useState initial values; the mount effect has called loadAvailableFiles,
\* which set loading and awaits listBundles
InitViewer ==
    /\ view = [files |-> <<>>, selectedFile |-> "", bundleData |-> <<>>,
               loading |-> TRUE, error |-> ""]
    /\ input = [started |-> 0, inflight |-> {Request(0, "list", "")}]
    /\ pc = "viewer"
    /\ bundle = <<>>
    /\ meta = <<>>
    /\ output = <<>>
    /\ listing = [type |-> "local", listed |-> <<>>]
    /\ walk = <<>>
    /\ progress = <<>>

\* the component state after loadBundleData(identifier) has run up to its
\* await: setLoading(true); setError(''); setBundleData(null)
LoadStarted(state, identifier) ==
    [state EXCEPT !.selectedFile = identifier, !.loading = TRUE,
                  !.error = "", !.bundleData = <<>>]

\* loadAvailableFiles after its await: setFiles, setSelectedFile(first),
\* finally setLoading(false); then the effect of selectedFile runs
\* loadBundleData
ListResolves(r, fileList) ==
    /\ pc = "viewer"
    /\ r \in input.inflight
    /\ r.what = "list"
    /\ IF fileList = <<>>
       THEN /\ view' = [view EXCEPT !.files = fileList, !.loading = FALSE]
            /\ input' = [input EXCEPT !.inflight = @ \ {r}]
       ELSE /\ view' = LoadStarted([view EXCEPT !.files = fileList],
                                   fileList[1])
            /\ input' = [started |-> input.started + 1,
                         inflight |-> (input.inflight \ {r}) \cup
                            {Request(input.started + 1, "bundle",
                                     fileList[1])}]
    /\ UNCHANGED <<bundle, meta, pc, output, listingVars, stageVars>>

\* loadAvailableFiles, catch and finally
ListRejects(r) ==
    /\ pc = "viewer"
    /\ r \in input.inflight
    /\ r.what = "list"
    /\ view' = [view EXCEPT !.error = "Failed to load available bundles",
                            !.loading = FALSE]
    /\ input' = [input EXCEPT !.inflight = @ \ {r}]
    /\ UNCHANGED <<bundle, meta, pc, output, listingVars, stageVars>>

\* onClick: setSelectedFile(file.name); the effect runs loadBundleData
SelectFile(f) ==
    /\ pc = "viewer"
    /\ \E i \in 1..Len(view.files) : view.files[i] = f
    /\ f # view.selectedFile
    /\ input.started < MaxLoads
    /\ view' = LoadStarted(view, f)
    /\ input' = [started |-> input.started + 1,
                 inflight |-> input.inflight \cup
                    {Request(input.started + 1, "bundle", f)}]
    /\ UNCHANGED <<bundle, meta, pc, output, listingVars, stageVars>>

\* loadBundleData after its await: setBundleData(data); setLoading(false)
LoadResolves(r) ==
    /\ pc = "viewer"
    /\ r \in input.inflight
    /\ r.what = "bundle"
    /\ view' = [view EXCEPT !.bundleData = <<r.identifier>>,
                            !.loading = FALSE]
    /\ input' = [input EXCEPT !.inflight = @ \ {r}]
    /\ UNCHANGED <<bundle, meta, pc, output, listingVars, stageVars>>

\* loadBundleData, catch and finally: setError(message); setLoading(false)
LoadRejects(r) ==
    /\ pc = "viewer"
    /\ r \in input.inflight
    /\ r.what = "bundle"
    /\ view' = [view EXCEPT !.error = "Failed to load bundle",
                            !.loading = FALSE]
    /\ input' = [input EXCEPT !.inflight = @ \ {r}]
    /\ UNCHANGED <<bundle, meta, pc, output, listingVars, stageVars>>

NextViewer ==
    \/ \E r \in input.inflight, fileList \in FileLists :
          ListResolves(r, fileList)
    \/ \E r \in input.inflight : ListRejects(r)
    \/ \E f \in {"claimReq.json", "claimResp.json", "preAuthReq.json"} :
          SelectFile(f)
    \/ \E r \in input.inflight : LoadResolves(r)
    \/ \E r \in input.inflight : LoadRejects(r)

SpecViewer == InitViewer /\ [][NextViewer]_vars

(***************************************************************************)
(* NHCXAPIService: polling the status of one request id.  input holds the  *)
(* service: calls, one record per startPolling call (its attempts counter, *)
(* whether its interval timer is still set), pollingIntervals (<<>> or the *)
(* timer stored for the id) and the status requests in flight.  output     *)
(* records what has happened: whether a stop call has returned since the   *)
(* last start, and what was done after it or after a terminal status.      *)
(***************************************************************************)
\* current_status values of a status response: one that is not terminal
\* and the two terminal ones
StatusValues == {"request.sent", "response.complete", "response.error"}

Terminal(status) == status \in {"response.complete", "response.error"}

\* a status request in flight: the call that issued it and its number
StatusRequest(call, attempt) == [call |-> call, attempt |-> attempt]

InitPolling ==
    /\ input = [maxAttempts |-> MaxAttempts, calls |-> <<>>,
                pollingIntervals |-> <<>>, inflight |-> {}]
    /\ output = [stopped |-> FALSE, terminalSeen |-> FALSE,
                 requestAfterStop |-> FALSE, callbackAfterStop |-> FALSE,
                 requestAfterTerminal |-> FALSE]
    /\ pc = "polling"
    /\ bundle = <<>>
    /\ meta = <<>>
    /\ view = <<>>
    /\ listing = [type |-> "local", listed |-> <<>>]
    /\ walk = <<>>
    /\ progress = <<>>

\* the service after stopPolling(requestId): the stored timer is cleared
\* and the entry deleted
Stopped(service) ==
    IF service.pollingIntervals = <<>> THEN service
    ELSE [service EXCEPT
            !.calls[service.pollingIntervals[1]].timer = FALSE,
            !.pollingIntervals = <<>>]

\* the service after poll() of a call has run up to its await:
\* attempts++ and a status request is issued
Polled(service, call) ==
    [service EXCEPT
        !.calls[call].attempts = @ + 1,
        !.inflight = @ \cup
            {StatusRequest(call, service.calls[call].attempts + 1)}]

\* the record of a status request issued now
RequestIssued ==
    [output EXCEPT
        !.requestAfterStop = @ \/ output.stopped,
        !.requestAfterTerminal = @ \/ output.terminalSeen]

\* startPolling(requestId, callback, interval, maxAttempts): the initial
\* poll, setInterval, pollingIntervals.set
StartPolling ==
    /\ pc = "polling"
    /\ Len(input.calls) < MaxStarts
    /\ LET call == Len(input.calls) + 1
           added == [input EXCEPT
                        !.calls = Append(@, [attempts |-> 0,
                                             timer |-> TRUE])]
       IN input' = [Polled(added, call) EXCEPT
                       !.pollingIntervals = <<call>>]
    /\ output' = [output EXCEPT !.stopped = FALSE, !.terminalSeen = FALSE]
    /\ UNCHANGED <<pipelineVars, listingVars, stageVars>>

\* the interval timer of a call fires: poll()
IntervalElapses(call) ==
    /\ pc = "polling"
    /\ call \in 1..Len(input.calls)
    /\ input.calls[call].timer
    /\ input.calls[call].attempts < MaxPolls
    /\ input' = Polled(input, call)
    /\ output' = RequestIssued
    /\ UNCHANGED <<pipelineVars, listingVars, stageVars>>

\* a status request returns: callback(status, attempts); stopPolling when
\* the status is terminal or attempts >= maxAttempts
StatusReturns(r, status) ==
    /\ pc = "polling"
    /\ r \in input.inflight
    /\ LET received == [input EXCEPT !.inflight = @ \ {r}]
       IN input' = IF \/ Terminal(status)
                      \/ input.calls[r.call].attempts >= input.maxAttempts
                   THEN Stopped(received) ELSE received
    /\ output' = [output EXCEPT
                     !.callbackAfterStop = @ \/ output.stopped,
                     !.terminalSeen = @ \/ Terminal(status)]
    /\ UNCHANGED <<pipelineVars, listingVars, stageVars>>

\* a status request fails: the catch block
StatusFails(r) ==
    /\ pc = "polling"
    /\ r \in input.inflight
    /\ LET received == [input EXCEPT !.inflight = @ \ {r}]
       IN input' = IF input.calls[r.call].attempts >= input.maxAttempts
                   THEN Stopped(received) ELSE received
    /\ UNCHANGED <<output, pipelineVars, listingVars, stageVars>>

\* stopPolling(requestId), called by the user of the service
StopPolling ==
    /\ pc = "polling"
    /\ input.calls # <<>>
    /\ ~output.stopped
    /\ input' = Stopped(input)
    /\ output' = [output EXCEPT !.stopped = TRUE]
    /\ UNCHANGED <<pipelineVars, listingVars, stageVars>>

\* stopAllPolling(): every stored timer is cleared, the map is emptied
StopAllPolling ==
    /\ pc = "polling"
    /\ input.calls # <<>>
    /\ ~output.stopped
    /\ input' = Stopped(input)
    /\ output' = [output EXCEPT !.stopped = TRUE]
    /\ UNCHANGED <<pipelineVars, listingVars, stageVars>>

NextPolling ==
    \/ StartPolling
    \/ \E call \in 1..MaxStarts : IntervalElapses(call)
    \/ \E r \in input.inflight, status \in StatusValues :
          StatusReturns(r, status)
    \/ \E r \in input.inflight : StatusFails(r)
    \/ StopPolling
    \/ StopAllPolling

SpecPolling == InitPolling /\ [][NextPolling]_vars

(***************************************************************************)
(* NHCXAPIService.waitForCompletion for one request id.  input holds the   *)
(* call: maxAttempts, the attempts counter, whether the interval timer is  *)
(* set, and the status requests in flight (by number).  output holds the   *)
(* promise (settled: <<>> while pending, else how it settled), the         *)
(* observations made in order, and whether a status request was started    *)
(* after the promise had settled.                                          *)
(***************************************************************************)
\* mutant: a response that is not terminal never ends the wait
SettlesAs_NoTimeout(status, attempts, maxAttempts) ==
    CASE status = "response.complete" -> <<"resolved">>
      [] status = "response.error" -> <<"RequestError">>
      [] status = "failed" -> <<"request error">>
      [] OTHER -> <<>>

\* what poll() does with the outcome of its status request ("failed": the
\* request raised): <<>> when it neither resolves nor rejects, else the
\* way it settles the promise after clearInterval
SettlesAs(status, attempts, maxAttempts) ==
    CASE status = "response.complete" -> <<"resolved">>
      [] status = "response.error" -> <<"RequestError">>
      [] status = "failed" -> <<"request error">>
      [] OTHER -> IF attempts >= maxAttempts THEN <<"Timeout">> ELSE <<>>

\* new Promise(executor): setInterval(poll, interval); poll()
InitWait ==
    /\ \E maxAttempts \in 1..MaxAttempts :
          input = [maxAttempts |-> maxAttempts, attempts |-> 1,
                   timer |-> TRUE, inflight |-> {1}]
    /\ output = [settled |-> <<>>, log |-> <<>>,
                 requestAfterSettled |-> FALSE]
    /\ pc = "waiting"
    /\ bundle = <<>>
    /\ meta = <<>>
    /\ view = <<>>
    /\ listing = [type |-> "local", listed |-> <<>>]
    /\ walk = <<>>
    /\ progress = <<>>

\* the interval timer fires: poll() up to its await
WaitIntervalElapses ==
    /\ pc = "waiting"
    /\ input.timer
    /\ input.attempts < MaxPolls
    /\ input' = [input EXCEPT !.attempts = @ + 1,
                              !.inflight = @ \cup {input.attempts + 1}]
    /\ output' = [output EXCEPT
                     !.requestAfterSettled = @ \/ output.settled # <<>>]
    /\ UNCHANGED <<pipelineVars, listingVars, stageVars>>

\* a status request returns with a status, or fails: the rest of poll().
\* resolve and reject do nothing on a promise that has settled.
RequestCompletes(r, status) ==
    /\ pc = "waiting"
    /\ r \in input.inflight
    /\ LET settles == SettlesAs(status, input.attempts, input.maxAttempts)
       IN /\ input' = [input EXCEPT
                          !.inflight = @ \ {r},
                          !.timer = @ /\ settles = <<>>]
          /\ output' = [output EXCEPT
                           !.settled = IF @ = <<>> THEN settles ELSE @,
                           !.log = Append(@, [status |-> status,
                                              attempts |-> input.attempts])]
    /\ UNCHANGED <<pipelineVars, listingVars, stageVars>>

\* some status request in flight returns or fails
SomeRequestCompletes ==
    \E r \in input.inflight, status \in StatusValues \cup {"failed"} :
        RequestCompletes(r, status)

NextWait == WaitIntervalElapses \/ SomeRequestCompletes

SpecWait == InitWait /\ [][NextWait]_vars

\* the timer keeps firing while it is set, and every status request
\* returns or fails
SpecWaitFair ==
    /\ SpecWait
    /\ WF_vars(WaitIntervalElapses)
    /\ WF_vars(SomeRequestCompletes)

(***************************************************************************)
(* The classifier and extractWorkflowContext applied to a parsed bundle    *)
(***************************************************************************)
InitJson ==
    /\ bundle = <<>>
    /\ meta = <<>>
    /\ view = <<>>
    /\ pc = "parsed"
    /\ listing = [type |-> "local", listed |-> <<>>]
    /\ walk = <<>>
    /\ progress = <<>>
    /\ input \in JsonBundles
    /\ output = [metadata |-> <<>>, context |-> <<>>]

\* const metadata = detectBundleMetadata(data)
DetectMetadata ==
    /\ pc = "parsed"
    /\ output.metadata = <<>>
    /\ output' = [output EXCEPT !.metadata = <<detectBundleMetadataJson(input)>>]
    /\ UNCHANGED <<pipelineVars, listingVars, stageVars, input>>

\* const context = extractWorkflowContext(bundleData)
ExtractContext ==
    /\ pc = "parsed"
    /\ output.context = <<>>
    /\ output' = [output EXCEPT !.context = <<extractWorkflowContext(input)>>]
    /\ UNCHANGED <<pipelineVars, listingVars, stageVars, input>>

NextJson == DetectMetadata \/ ExtractContext

SpecJson == InitJson /\ [][NextJson]_vars

(***************************************************************************)
(* The two rendering surfaces applied to one value                         *)
(***************************************************************************)
InitExtract ==
    /\ bundle = <<>>
    /\ meta = <<>>
    /\ view = <<>>
    /\ pc = "extract"
    /\ listing = [type |-> "local", listed |-> <<>>]
    /\ walk = <<>>
    /\ progress = <<>>
    /\ input \in ExtractorInputs
    /\ output = [single |-> <<>>, multi |-> <<>>]

\* SingleFHIRRenderer renders the value
RenderSingle ==
    /\ pc = "extract"
    /\ output.single = <<>>
    /\ output' = [output EXCEPT
                     !.single = <<SingleFHIRRenderer(input.type, input.value)>>]
    /\ UNCHANGED <<pipelineVars, listingVars, stageVars, input>>

\* MultiResourceRenderer renders the value
RenderMulti ==
    /\ pc = "extract"
    /\ output.multi = <<>>
    /\ output' = [output EXCEPT
                     !.multi = <<MultiResourceRenderer(input.type, input.value)>>]
    /\ UNCHANGED <<pipelineVars, listingVars, stageVars, input>>

NextExtract == RenderSingle \/ RenderMulti

SpecExtract == InitExtract /\ [][NextExtract]_vars

(***************************************************************************)
(* The stage tables walked from an identifier: getWorkflowStage is asked   *)
(* for the stage of the last identifier and its next pointer is followed;  *)
(* getProgressPercentage is asked for the last identifier's progress.      *)
(***************************************************************************)
InitStages ==
    /\ \E workflowId \in StageIds \cup OtherIds : walk = <<workflowId>>
    /\ progress = <<>>
    /\ pc = "stages"
    /\ bundle = <<>>
    /\ meta = <<>>
    /\ view = <<>>
    /\ listing = [type |-> "local", listed |-> <<>>]
    /\ input = <<>>
    /\ output = <<>>

\* the identifier the walk has arrived at
Current == walk[Len(walk)]

\* getWorkflowStage(Current) is a stage whose next is not null
HasNext ==
    /\ getWorkflowStage(Current) # <<>>
    /\ getWorkflowStage(Current)[1].next # <<>>

\* workflowId = getWorkflowStage(workflowId).next
FollowNext ==
    /\ pc = "stages"
    /\ HasNext
    /\ Len(walk) < MaxWalk
    /\ walk' = Append(walk, getWorkflowStage(Current)[1].next[1])
    /\ UNCHANGED <<progress, pipelineVars, listingVars, utilityVars>>

\* getProgressPercentage(workflowId)
ReadProgress ==
    /\ pc = "stages"
    /\ progress' = <<[workflowId |-> Current,
                      value |-> getProgressPercentage(Current)]>>
    /\ UNCHANGED <<walk, pipelineVars, listingVars, utilityVars>>

NextStages == FollowNext \/ ReadProgress

SpecStages == InitStages /\ [][NextStages]_vars

\* the walk goes on while there is a next pointer to follow
SpecStagesFair == SpecStages /\ WF_vars(FollowNext)

(***************************************************************************)
(* getNextActions called with a stage identifier and a status              *)
(***************************************************************************)
InitActions ==
    /\ input \in { [workflowId |-> w, status |-> st] :
                      w \in StageIds \cup OtherIds, st \in Statuses }
    /\ output = <<>>
    /\ pc = "actions"
    /\ bundle = <<>>
    /\ meta = <<>>
    /\ view = <<>>
    /\ listing = [type |-> "local", listed |-> <<>>]
    /\ walk = <<>>
    /\ progress = <<>>

\* const actions = getNextActions(workflowId, status)
SuggestActions ==
    /\ pc = "actions"
    /\ output = <<>>
    /\ output' = <<getNextActions(input.workflowId, input.status)>>
    /\ UNCHANGED <<input, pipelineVars, listingVars, stageVars>>

NextActions == SuggestActions

SpecActions == InitActions /\ [][NextActions]_vars

(***************************************************************************)
(* Claims about the classifier and the stage engine (checked under Spec)   *)
(***************************************************************************)
Classified == pc \in {"classified", "rendered"}
Rendered == pc = "rendered"

\* the bundle has no entries: entry absent, or an empty list
NoEntries(b) == ~b.hasEntry \/ b.entry = <<>>

\* the main resource of a bundle that has one (used under that guard only)
Main(b) == MainResource(b)[1]

\* C1: detectBundleMetadata returns the title, workflow and direction of the
\* lowest-numbered rule whose condition holds: if rule i holds and no
\* earlier rule does, the result is rule i's, whichever later rules hold too.
C1_FirstMatchWins ==
    Classified =>
        \A i \in Rules :
            (RuleHolds(i, bundle) /\ \A j \in 1..(i - 1) : ~RuleHolds(j, bundle))
                => Projection(meta[1]) = RuleOutcome(i, bundle)

\* C1 witness: a ClaimResponse whose type-coding is preauthorization and
\* whose profile names PreAuth satisfies rules 5 and 6; it was classified
\* by rule 5.
C1_Witness ==
    /\ pc = "classified"
    /\ RuleHolds(5, bundle) /\ RuleHolds(6, bundle)
    /\ \A j \in 1..4 : ~RuleHolds(j, bundle)
    /\ meta[1].title = "Claim Response"

ProfileHasNoKeyword(p) ==
    \A k \in {tInsurancePlan, tCERequest, tCEResponse, tClaim, <<"PreAuth">>} :
        ~Includes(p, k)

UnrecognizedMain(b) ==
    /\ MainResource(b) # <<>>
    /\ Main(b).resourceType # <<>>
    /\ Main(b).resourceType \notin KnownTypes
    /\ Main(b).profile = <<>>
    /\ Main(b).typeCode # "preauthorization"

\* C3 as stated: a bundle whose main resource has an unrecognized type, no
\* profile and no preauthorization type-coding, whatever the bundle's own
\* profile is, falls to Unknown with the type name as title.
C3_Original ==
    (Classified /\ UnrecognizedMain(bundle)) =>
        /\ meta[1].workflow = "NHCX Workflow"
        /\ meta[1].title = Text(Main(bundle).resourceType)

\* C3 amended: ... and whose bundle meta.profile contains none of the
\* classifier's keywords falls to Unknown with the type name as title.
C3_Amended ==
    (Classified /\ UnrecognizedMain(bundle)
        /\ ProfileHasNoKeyword(bundle.profile)) =>
        /\ meta[1].workflow = "NHCX Workflow"
        /\ meta[1].title = Text(Main(bundle).resourceType)

\* C3 witness: an Observation bundle was classified with title "Observation"
C3_Witness ==
    /\ pc = "classified"
    /\ UnrecognizedMain(bundle)
    /\ bundle.profile = <<>>
    /\ Main(bundle).resourceType = tObservation
    /\ meta[1].title = "Observation"

\* main resource is a CoverageEligibilityResponse with outcome 'complete'
CompleteEligibilityResponse(b) ==
    /\ MainResource(b) # <<>>
    /\ Main(b).resourceType = tCEResponse
    /\ Main(b).outcome = "complete"

\* result of the pipeline: category (workflow), direction, stage, progress
PipelineYields(workflow, direction, stage, percent) ==
    /\ meta[1].workflow = workflow
    /\ meta[1].type = direction
    /\ view[1].section
    /\ view[1].currentStage = stage
    /\ getProgressPercentage(view[1].currentStage) = Num(percent)

\* C4 as stated: every bundle whose main resource is a complete
\* CoverageEligibilityResponse yields Eligibility, response, CE02, 100.
C4_Original ==
    (Rendered /\ CompleteEligibilityResponse(bundle)) =>
        PipelineYields("Eligibility Verification", "response", "CE02", 100)

\* C4 amended: ... and whose bundle and resource profile URIs contain
\* neither "InsurancePlan" nor "CoverageEligibilityRequest" yields
\* Eligibility, response, CE02, 100.
C4_Amended ==
    (Rendered /\ CompleteEligibilityResponse(bundle)
        /\ ~EitherProfileIncludes(bundle, tInsurancePlan)
        /\ ~EitherProfileIncludes(bundle, tCERequest)) =>
        PipelineYields("Eligibility Verification", "response", "CE02", 100)

\* C4 witness: the spec's scenario bundle, rendered
C4_Witness ==
    /\ Rendered
    /\ CompleteEligibilityResponse(bundle)
    /\ bundle.profile = <<>> /\ Main(bundle).profile = <<>>
    /\ view[1].currentStage = "CE02"
    /\ meta[1].type = "response"

\* main resource is a Claim; no profile on bundle or resource, no outcome,
\* no preauthorization type-coding
BareClaim(b) ==
    /\ MainResource(b) # <<>>
    /\ Main(b).resourceType = tClaim
    /\ b.profile = <<>> /\ Main(b).profile = <<>>
    /\ Main(b).outcome = Absent
    /\ Main(b).typeCode # "preauthorization"

\* C5: a bare Claim bundle yields category Claim, direction request,
\* stage CL01 and progress 15.
C5_BareClaim ==
    (Rendered /\ BareClaim(bundle)) =>
        PipelineYields("Claim Processing", "request", "CL01", 15)

\* C5 witness: a bare Claim bundle was rendered at stage CL01
C5_Witness ==
    /\ Rendered /\ BareClaim(bundle)
    /\ view[1].workflowType = "CLAIM"
    /\ view[1].currentStage = "CL01"

\* the stage C6 expects for a response main resource r (the outcome code
\* is compared without regard to letter case, as the code compares it)
ExpectedResponseStage(r) ==
    LET prefix == IF r.resourceType = tCEResponse THEN "CE"
                  ELSE IF r.typeCode = "preauthorization" THEN "PA"
                  ELSE "CL"
    IN
    IF ToLowerCase(r.outcome) = "complete"
    THEN (IF prefix = "CE" THEN "CE02" ELSE prefix \o "04")
    ELSE IF ToLowerCase(r.outcome) = "partial" /\ prefix # "CE"
    THEN prefix \o "06"
    ELSE prefix \o "01"

\* C6: for every response main resource (CoverageEligibilityResponse,
\* ClaimResponse of a claim or of a pre-authorization) the derived stage is
\* the category's approved stage for outcome 'complete', its partial stage
\* for 'partial', and its initial stage for any other or absent outcome.
\* (Eligibility has no partial stage: a 'partial' eligibility response is
\* left out of the statement.)
C6_StageFromOutcome ==
    (Rendered /\ MainResource(bundle) # <<>>
        /\ Main(bundle).resourceType \in {tCEResponse, tClaimResponse}
        /\ ~(Main(bundle).resourceType = tCEResponse
             /\ ToLowerCase(Main(bundle).outcome) = "partial")) =>
        view[1].currentStage = ExpectedResponseStage(Main(bundle))

\* the bundle was classified by the PreAuth rule
ClassifiedPreAuth == Classified /\ meta[1].workflow = "Pre-Authorization"

\* C15 as stated: for every bundle classified by the PreAuth rule the
\* direction is response if the main resource's type name contains
\* "Response" and request otherwise, whatever the profile URIs contain.
C15_Original ==
    ClassifiedPreAuth =>
        meta[1].type =
            Direction(Includes(MainResourceType(bundle), <<"Response">>))

\* C15 amended: ... the direction is response if the main resource's type
\* name, the bundle's profile URI or the resource's profile URI contains
\* "Response", and request otherwise; the title follows the direction.
C15_Amended ==
    ClassifiedPreAuth =>
        LET response ==
                \/ Includes(MainResourceType(bundle), <<"Response">>)
                \/ EitherProfileIncludes(bundle, <<"Response">>)
        IN /\ meta[1].type = Direction(response)
           /\ meta[1].title = IF response THEN "Pre-Authorization Response"
                                          ELSE "Pre-Authorization Request"

\* C15 witness: an Observation under the bundle profile PreAuthResponse was
\* classified by the PreAuth rule as a response.
C15_Witness ==
    /\ ClassifiedPreAuth
    /\ MainResourceType(bundle) = tObservation
    /\ bundle.profile = Uri(<<"PreAuth", "Response">>)
    /\ MainResourceProfile(bundle) = <<>>
    /\ meta[1].type = "response"

(***************************************************************************)
(* Claims about the aggregators (checked under SpecAggregate)              *)
(***************************************************************************)
\* the main resource is a ClaimResponse
MainIsClaimResponse(b) ==
    MainResource(b) # <<>> /\ Main(b).resourceType = tClaimResponse

\* the items of a ClaimResponse (no item field: none)
ItemsOf(r) == IF r.item = <<>> THEN <<>> ELSE r.item[1]

\* least element of a non-empty set of numbers
Least(S) == CHOOSE x \in S : \A y \in S : x <= y

\* amount of the item's adjudication of the given category, a missing
\* adjudication list, adjudication or amount counting as 0
AdjudicatedAmount(item, code) ==
    IF item.adjudication = <<>> THEN 0
    ELSE LET adj == item.adjudication[1]
             at == { i \in 1..Len(adj) : adj[i].code = code }
         IN IF at = {} \/ adj[Least(at)].value = <<>> THEN 0
            ELSE adj[Least(at)].value[1]

\* the three-way rule of section 4.4
RuleStatus(submitted, benefit) ==
    IF benefit = 0 THEN "rejected"
    ELSE IF benefit < submitted THEN "reduced"
    ELSE "approved"

\* C7: the status of every breakdown row is 'rejected' if the item's
\* benefit amount is 0 (also when submitted is 0), otherwise 'reduced' if
\* benefit < submitted, otherwise 'approved'.
C7_ItemStatus ==
    (Rendered /\ MainIsClaimResponse(bundle)) =>
        \A i \in 1..Len(view[1].rows) :
            LET item == ItemsOf(Main(bundle))[i] IN
            /\ view[1].rows[i].status \in {"rejected", "reduced", "approved"}
            /\ view[1].rows[i].status =
                  RuleStatus(AdjudicatedAmount(item, "submitted"),
                             AdjudicatedAmount(item, "benefit"))

\* C7 witness: the zero boundary: an item with submitted 0 and benefit 0
\* was rendered as 'rejected'
C7_Witness ==
    /\ Rendered /\ MainIsClaimResponse(bundle)
    /\ Len(view[1].rows) = 1
    /\ view[1].rows[1] =
          [requested |-> <<0>>, approved |-> <<0>>, status |-> "rejected"]

\* C8 as stated: a ClaimResponse with n items gets n breakdown rows, for
\* every n.
C8_Original ==
    (Rendered /\ MainIsClaimResponse(bundle)) =>
        Len(view[1].rows) = Len(ItemsOf(Main(bundle)))

\* C8 amended: a ClaimResponse with n items gets min(n, 10) breakdown rows,
\* row i being the row of item i: the breakdown covers the first 10 items.
C8_Amended ==
    (Rendered /\ MainIsClaimResponse(bundle)) =>
        LET items == ItemsOf(Main(bundle))
            n == Len(items)
        IN /\ Len(view[1].rows) = (IF n < 10 THEN n ELSE 10)
           /\ \A i \in 1..Len(view[1].rows) :
                 view[1].rows[i].status =
                     RuleStatus(AdjudicatedAmount(items[i], "submitted"),
                                AdjudicatedAmount(items[i], "benefit"))

\* C8 witness: a ClaimResponse with 11 items was rendered with 10 rows
C8_Witness ==
    /\ Rendered /\ MainIsClaimResponse(bundle)
    /\ Len(ItemsOf(Main(bundle))) = 11
    /\ Len(view[1].rows) = 10

\* the InsurancePlan the bundle information panel summarises
PlanOf(b) == FindPlan(b.entry)[1]

HasPlan(b) == b.hasEntry /\ FindPlan(b.entry) # <<>>

RECURSIVE AllBenefits(_)
\* the benefits of a list of coverages, in order
AllBenefits(coverages) ==
    IF coverages = <<>> THEN <<>>
    ELSE (IF Head(coverages).benefit = <<>> THEN <<>>
          ELSE Head(coverages).benefit[1]) \o AllBenefits(Tail(coverages))

\* the benefit list of a plan
PlanBenefits(plan) ==
    IF plan.coverage = <<>> THEN <<>> ELSE AllBenefits(plan.coverage[1])

\* numeric value of a benefit's first limit; 0 when there is none
FirstLimitValue(benefit) ==
    IF benefit.limit = <<>> \/ benefit.limit[1] = <<>> THEN 0
    ELSE benefit.limit[1][1]

RECURSIVE SumFirstLimits(_)
SumFirstLimits(benefits) ==
    IF benefits = <<>> THEN 0
    ELSE FirstLimitValue(Head(benefits)) + SumFirstLimits(Tail(benefits))

TotalHas(r, code) ==
    r.total # <<>> /\ \E i \in 1..Len(r.total[1]) : r.total[1][i].code = code

\* C10: for a ClaimResponse whose total list lacks a 'submitted' entry or
\* lacks a 'benefit' entry, no settlement comparison is produced.
C10_NoComparison ==
    (Rendered /\ MainIsClaimResponse(bundle)
        /\ (~TotalHas(Main(bundle), "submitted")
            \/ ~TotalHas(Main(bundle), "benefit"))) =>
        view[1].comparison = <<>>

\* C10 witness: a total list with a 'submitted' entry of 1000 and no
\* 'benefit' entry was rendered without a comparison
C10_Witness ==
    /\ Rendered /\ MainIsClaimResponse(bundle)
    /\ Main(bundle).total = <<<<Adjudication("submitted", <<1000>>)>>>>
    /\ view[1].comparison = <<>>

\* the total list of a ClaimResponse has an entry coded `code`, and the first
\* such entry carries a numeric amount
TotalAmountOf(r, code) == FindAmount(r.total[1], code)

\* C11: for a ClaimResponse whose total list has a 'submitted' and a
\* 'benefit' entry, each with a numeric amount, the render produces a
\* settlement comparison with requested = the submitted amount and
\* approved = the benefit amount, for every pair of amounts.
C11_ComparisonOfTotals ==
    (Rendered /\ MainIsClaimResponse(bundle) /\ Main(bundle).total # <<>>
        /\ TotalAmountOf(Main(bundle), "submitted") # <<>>
        /\ TotalAmountOf(Main(bundle), "benefit") # <<>>) =>
        view[1].comparison =
            <<[requested |-> TotalAmountOf(Main(bundle), "submitted")[1],
               approved |-> TotalAmountOf(Main(bundle), "benefit")[1]]>>

\* C14: deriving the view of a loaded bundle never raises, in particular not
\* when an entry wraps no resource and not when a ClaimResponse's total is a
\* single object instead of a list.
C14_RenderNeverRaises == Rendered => ~view[1].raised

NoMainResource(json) ==
    Nullish(Eval(json, <<QDot("entry"), QAt(0), QDot("resource")>>))

\* neither function raised, as far as it was applied
NeitherRaised ==
    /\ output.metadata # <<>> => ~output.metadata[1].raised
    /\ output.context # <<>> => ~output.context[1].raised

HasText(obj, key) ==
    key \in DOMAIN obj.fields /\ obj.fields[key].text # <<>>

\* the CodeableConcept -> string extractor as the specification states it
ConceptText(concept) ==
    IF \/ concept = Undefined
       \/ "coding" \notin DOMAIN concept.fields
       \/ concept.fields.coding.items = <<>>
    THEN NA
    ELSE LET first == concept.fields.coding.items[1] IN
         IF HasText(first, "display") THEN first.fields.display
         ELSE IF HasText(first, "code") THEN first.fields.code
         ELSE NA

\* C16: renderCodeableConcept, in both components, returns 'N/A' when the
\* concept or its coding list is absent or empty, otherwise the first
\* coding's display, else its code, else 'N/A'; later codings never matter.
C16_CodeableConcept ==
    input.type = "CodeableConcept" =>
        /\ output.single # <<>> => output.single[1] = ConceptText(input.value)
        /\ output.multi # <<>> => output.multi[1] = ConceptText(input.value)

\* C16 witness: a concept whose first coding has no display and whose second
\* coding has one was rendered as the first coding's code by both.
C16_Witness ==
    /\ input = [type |-> "CodeableConcept",
                value |-> Obj([coding |->
                    Arr(<<Obj([system |-> Str(<<"snomed">>),
                               code |-> Str(<<"C001">>)]), OtherCoding>>)])]
    /\ output.single = <<Str(<<"C001">>)>>
    /\ output.multi = <<Str(<<"C001">>)>>

\* C17: for every input, each extractor of MultiResourceRenderer returns
\* the same string as the extractor of the same name in SingleFHIRRenderer.
C17_SameExtractors ==
    (output.single # <<>> /\ output.multi # <<>>) =>
        output.single = output.multi


\* what the claim lets the classification depend on: the bundle's first
\* profile URI and, of the first entry's resource, the type, the first
\* profile URI and the first type-coding code
ClassifierKey(json) ==
    LET first == Eval(json, <<Dot("entry"), QAt(0), QDot("resource")>>)
    IN <<Eval(json, <<Dot("meta"), QDot("profile"), QAt(0)>>),
         Eval(first, <<QDot("resourceType")>>),
         Eval(first, <<QDot("meta"), QDot("profile"), QAt(0)>>),
         Eval(first, <<QDot("type"), QDot("coding"), QAt(0), QDot("code")>>)>>

\* title, description, workflow and direction of a classification
FourValues(result) ==
    IF result.raised THEN <<"raised">>
    ELSE <<result.value[1].title, result.value[1].description,
           result.value[1].workflow, result.value[1].type>>

\* the entry count of a classification
CountOf(result) ==
    IF result.raised THEN -1 ELSE result.value[1].resourceCount

\* key, four values and entry count of every parsed bundle
Classifications ==
    { [key |-> ClassifierKey(json),
       values |-> FourValues(detectBundleMetadataJson(json)),
       count |-> CountOf(detectBundleMetadataJson(json))] :
        json \in JsonBundles }

\* C24: title, description, workflow and direction of detectBundleMetadata
\* depend only on the bundle's first profile URI and on the first entry's
\* resource (type, first profile URI, first type-coding code): every
\* bundle that agrees with the classified one on these gets the same four
\* values, whatever else differs.
C24_DependsOnMainOnly ==
    (pc = "parsed" /\ output.metadata # <<>>) =>
        LET key == ClassifierKey(input)
            values == FourValues(output.metadata[1])
        IN \A other \in Classifications :
              other.key = key => other.values = values

\* the classified bundle has one entry, and a bundle with the same key
\* has two
C24_Witness ==
    /\ pc = "parsed"
    /\ output.metadata # <<>>
    /\ CountOf(output.metadata[1]) = 1
    /\ \E other \in Classifications :
          other.key = ClassifierKey(input) /\ other.count = 2

(***************************************************************************)
(* Claims about the classifier next to the stage derivation (checked       *)
(* under Spec)                                                             *)
(***************************************************************************)
\* the workflow of the classifier that corresponds to a workflow type of
\* the timeline
CorrespondingWorkflow ==
    [ELIGIBILITY |-> "Eligibility Verification",
     PREAUTH |-> "Pre-Authorization",
     CLAIM |-> "Claim Processing",
     PLAN |-> "Insurance Plan Discovery"]

\* C25: the workflow type FHIRRenderer derives for the timeline
\* (ELIGIBILITY, PREAUTH, CLAIM, PLAN or none) corresponds to the workflow
\* detectBundleMetadata assigns to the same bundle, also for Claim and
\* ClaimResponse resources coded preauthorization and for bundles
\* recognised by their profile URI only.
C25_WorkflowsAgree ==
    Rendered =>
        IF view[1].workflowType \in DOMAIN CorrespondingWorkflow
        THEN meta[1].workflow = CorrespondingWorkflow[view[1].workflowType]
        ELSE \A w \in DOMAIN CorrespondingWorkflow :
                meta[1].workflow # CorrespondingWorkflow[w]

\* the bundle has a main resource of type t
MainIs(t) == MainResource(bundle) # <<>> /\ MainResourceType(bundle) = t

\* C26 as stated: for a main resource of type ClaimResponse or
\* CoverageEligibilityResponse the direction is response, for one of type
\* Claim or CoverageEligibilityRequest it is request, whatever the profile
\* URIs of the bundle and of the resource are.
C26_Original ==
    Classified =>
        /\ (MainIs(tClaimResponse) \/ MainIs(tCEResponse))
              => meta[1].type = "response"
        /\ (MainIs(tClaim) \/ MainIs(tCERequest))
              => meta[1].type = "request"

\* C26 amended: the direction agrees with the main resource's kind unless
\* a profile URI makes an earlier rule decide.  In this order: a profile
\* URI (of the bundle or the resource) that contains InsurancePlan gives
\* response; one that contains CoverageEligibilityRequest gives request;
\* one that contains CoverageEligibilityResponse gives response; a bundle
\* profile URI that contains Claim and not Response gives request for a
\* ClaimResponse; otherwise the direction is that of the resource's kind.
C26_Amended ==
    Classified =>
        LET plan == EitherProfileIncludes(bundle, tInsurancePlan)
            ceRequest == EitherProfileIncludes(bundle, tCERequest)
            ceResponse == EitherProfileIncludes(bundle, tCEResponse)
            claimOnly == /\ Includes(bundle.profile, tClaim)
                         /\ ~Includes(bundle.profile, <<"Response">>)
        IN /\ MainIs(tCERequest) =>
                 meta[1].type = IF plan THEN "response" ELSE "request"
           /\ MainIs(tCEResponse) =>
                 meta[1].type = IF plan THEN "response"
                                ELSE IF ceRequest THEN "request"
                                ELSE "response"
           /\ MainIs(tClaim) =>
                 meta[1].type = IF plan THEN "response"
                                ELSE IF ceRequest THEN "request"
                                ELSE IF ceResponse THEN "response"
                                ELSE "request"
           /\ MainIs(tClaimResponse) =>
                 meta[1].type = IF plan THEN "response"
                                ELSE IF ceRequest THEN "request"
                                ELSE IF ceResponse THEN "response"
                                ELSE IF claimOnly THEN "request"
                                ELSE "response"

\* a ClaimResponse under a bundle profile that names the Claim is listed
\* as a request
C26_Witness ==
    /\ Classified
    /\ MainIs(tClaimResponse)
    /\ bundle.profile = Uri(tClaim)
    /\ meta[1].type = "request"

(***************************************************************************)
(* Claims about the stage tables (checked under SpecStages and             *)
(* SpecStagesFair)                                                         *)
(***************************************************************************)
\* the table that holds workflowId as a stage, "none" when no table does
WorkflowOf(workflowId) ==
    IF \E w \in DOMAIN NHCX_WORKFLOWS : workflowId \in DOMAIN NHCX_WORKFLOWS[w]
    THEN CHOOSE w \in DOMAIN NHCX_WORKFLOWS :
            workflowId \in DOMAIN NHCX_WORKFLOWS[w]
    ELSE "none"

InitialStage ==
    [ELIGIBILITY |-> "CE01", PREAUTH |-> "PA01", CLAIM |-> "CL01",
     PLAN |-> "IP01"]

\* the identifiers the walk has visited
Walked == { walk[i] : i \in 1..Len(walk) }

\* the walk has started and there is no next pointer left to follow
WalkEnded == pc = "stages" /\ ~HasNext

IsPrefix(s, t) == Len(s) <= Len(t) /\ s = SubSeq(t, 1, Len(s))

\* C18 as stated: every stage of a workflow's table is reachable from the
\* workflow's initial stage by following next pointers.  A next pointer
\* names one stage, so the stages reachable from the initial stage are the
\* stages of the walk from it: once that walk has ended it has visited
\* every stage of the table.
C18_Original ==
    \A w \in DOMAIN NHCX_WORKFLOWS :
        (WalkEnded /\ walk[1] = InitialStage[w])
            => DOMAIN NHCX_WORKFLOWS[w] \subseteq Walked

\* the stages the next pointers visit from each initial stage
ListedWalk ==
    [ELIGIBILITY |-> <<"CE01", "CE02">>,
     PREAUTH |-> <<"PA01", "PA02", "PA03", "PA04">>,
     CLAIM |-> <<"CL01", "CL02", "CL03", "CL04", "CL07">>,
     PLAN |-> <<"IP01", "IP02">>]

\* C18 amended: following next pointers from a workflow's initial stage
\* visits exactly CE01 CE02; PA01 PA02 PA03 PA04; CL01 CL02 CL03 CL04 CL07;
\* IP01 IP02.  PA03 leads to PA04 only and CL03 to CL04 only; CL04 and
\* CL06 lead to CL07; PA05, PA06, CL05 and CL06 are the next stage of no
\* stage.
C18_Amended ==
    pc = "stages" =>
        /\ \A w \in DOMAIN NHCX_WORKFLOWS :
              walk[1] = InitialStage[w] =>
                 /\ IsPrefix(walk, ListedWalk[w])
                 /\ WalkEnded => walk = ListedWalk[w]
        /\ \A i \in 2..Len(walk) :
              walk[i] \notin {"PA05", "PA06", "CL05", "CL06"}
        /\ walk[1] = "CL06" =>
                 /\ IsPrefix(walk, <<"CL06", "CL07">>)
                 /\ WalkEnded => walk = <<"CL06", "CL07">>

\* the walk from PA01 has ended, at PA04
C18_Witness ==
    /\ WalkEnded
    /\ walk = <<"PA01", "PA02", "PA03", "PA04">>

\* no stage is visited twice
NoStageTwice ==
    \A i, j \in 1..Len(walk) : i # j => walk[i] # walk[j]

\* every stage visited belongs to the workflow of the start stage
SameWorkflow ==
    \A i \in 1..Len(walk) : WorkflowOf(walk[i]) = WorkflowOf(walk[1])

\* C19: from any stage, following the next pointer that getWorkflowStage
\* returns reaches a terminal stage (next = null) after finitely many
\* steps, every stage on the way belongs to the workflow of the start
\* stage, and no stage is visited twice.  The walk is never cut short by
\* MaxWalk.
C19_WalkEnds ==
    /\ [](pc = "stages" =>
            /\ NoStageTwice
            /\ SameWorkflow
            /\ HasNext => Len(walk) < MaxWalk)
    /\ <>[]WalkEnded

\* the longest walk, from CL01, has ended at the payment stage
C19_Witness ==
    /\ WalkEnded
    /\ walk = <<"CL01", "CL02", "CL03", "CL04", "CL07">>

\* the progress listed for each of the 17 stage identifiers
ListedProgress ==
    [CE01 |-> 50, CE02 |-> 100,
     PA01 |-> 20, PA02 |-> 40, PA03 |-> 60,
     PA04 |-> 100, PA05 |-> 100, PA06 |-> 100,
     CL01 |-> 15, CL02 |-> 30, CL03 |-> 50, CL04 |-> 85,
     CL05 |-> 100, CL06 |-> 85, CL07 |-> 100,
     IP01 |-> 50, IP02 |-> 100]

\* C20: getProgressPercentage returns the listed progress for each of the
\* 17 stage identifiers and 0 for every other identifier, so always a
\* number in 0..100.
C20_Progress ==
    progress # <<>> =>
        LET workflowId == progress[1].workflowId
            returned == progress[1].value
        IN /\ workflowId \in DOMAIN ListedProgress
                => returned = Num(ListedProgress[workflowId])
           /\ workflowId \notin DOMAIN ListedProgress => returned = Num(0)
           /\ returned.kind = "number"
           /\ returned.value \in 0..100


\* C23: in the stage tables a stage is terminal (next = null) exactly when
\* its progress is 100, and the progress of the next stage is strictly
\* greater than the stage's own, so progress never decreases along a walk
\* of next pointers.
C23_ProgressFollowsNext ==
    pc = "stages" =>
        /\ \A i \in 1..Len(walk) :
              walk[i] \in StageIds =>
                 (getWorkflowStage(walk[i])[1].next = <<>>
                    <=> getProgressPercentage(walk[i]) = Num(100))
        /\ \A i \in 1..(Len(walk) - 1) :
              getProgressPercentage(walk[i]).value
                 < getProgressPercentage(walk[i + 1]).value

\* the walk from the partially approved claim to the payment notice
C23_Witness ==
    /\ WalkEnded
    /\ walk = <<"CL06", "CL07">>

(***************************************************************************)
(* Claims about getNextActions (checked under SpecActions)                 *)
(***************************************************************************)
\* the labels of the actions returned
Labels == [i \in 1..Len(output[1]) |-> output[1][i].label]

\* <<label>> when the condition holds, <<>> otherwise
Exactly(condition, label) == IF condition THEN <<label>> ELSE <<>>

\* C21: for every (stageId, status) getNextActions returns a non-empty list
\* that ends with 'View FHIR Bundle', which occurs once; before it come, in
\* this order, 'Submit Pre-Auth' exactly when stageId = CE02 and status =
\* complete, 'Submit Claim' exactly when stageId is PA04 or PA06 and status
\* = approved, 'Submit Documents' exactly when stageId is PA02 or CL02.
C21_NextActions ==
    (pc = "actions" /\ output # <<>>) =>
        /\ Labels # <<>>
        /\ Labels[Len(Labels)] = "View FHIR Bundle"
        /\ Cardinality({ i \in 1..Len(Labels) :
                            Labels[i] = "View FHIR Bundle" }) = 1
        /\ SubSeq(Labels, 1, Len(Labels) - 1) =
              Exactly(input.workflowId = "CE02" /\ input.status = "complete",
                      "Submit Pre-Auth")
              \o Exactly(input.workflowId \in {"PA04", "PA06"}
                            /\ input.status = "approved",
                         "Submit Claim")
              \o Exactly(input.workflowId \in {"PA02", "CL02"},
                         "Submit Documents")

\* documents are suggested for CL02 under a status other than info_required
C21_Witness ==
    /\ pc = "actions"
    /\ output # <<>>
    /\ input.workflowId = "CL02"
    /\ input.status = "approved"
    /\ Labels = <<"Submit Documents", "View FHIR Bundle">>


(***************************************************************************)
(* Claims about listBundles in local mode (checked under SpecLocalList)    *)
(***************************************************************************)
\* retrieval succeeds: from the resource path, or after a not-ok answer
\* from the root path
Retrieved(answer) ==
    \/ answer.primary = "ok"
    \/ answer.primary = "notok" /\ answer.root = "ok"

\* the items returned for the i-th candidate
ListedFor(i) == { k \in 1..Len(output[1]) : output[1][k].id = patterns[i] }

\* the fields detectBundleMetadata contributes to an item
MetadataOf(item) ==
    Metadata(item.title, item.description, item.type, item.workflow,
             item.resourceCount)

\* the i-th candidate has exactly one item, classified from its content
ListedOnce(i) ==
    /\ Cardinality(ListedFor(i)) = 1
    /\ \A k \in ListedFor(i) :
          <<MetadataOf(output[1][k])>> =
              detectBundleMetadataJson(input[i].body.json).value

C27_ShowsCurrentSelection ==
    pc = "viewer" =>
        /\ (input.inflight = {} /\ view.selectedFile # "") =>
              \/ view.bundleData = <<view.selectedFile>>
              \/ view.bundleData = <<>> /\ view.error # ""
        /\ input.inflight # {} => view.loading


(***************************************************************************)
(* Claims about polling (checked under SpecPolling)                        *)
(***************************************************************************)
\* C28: one startPolling call issues at most maxAttempts status requests,
\* however slow the responses are, and none after a poll has observed
\* response.complete or response.error.
C28_AtMostMaxAttempts ==
    (pc = "polling" /\ Len(input.calls) = 1) =>
        /\ input.calls[1].attempts <= input.maxAttempts
        /\ ~output.requestAfterTerminal

\* C29: after stopPolling or stopAllPolling has returned no status request
\* is issued and the callback is not invoked for the request id, also when
\* startPolling was called twice or a status request was in flight, and
\* pollingIntervals holds no entry for the id.
C29_QuietAfterStop ==
    pc = "polling" =>
        /\ ~output.requestAfterStop
        /\ ~output.callbackAfterStop
        /\ output.stopped => input.pollingIntervals = <<>>


(***************************************************************************)
(* Claims about waitForCompletion (checked under SpecWaitFair)             *)
(***************************************************************************)
\* how one observation settles the wait according to the claim: resolved
\* on response.complete, RequestError on response.error, the request's
\* error on a failed request, Timeout on any other status once maxAttempts
\* polls have been made
SettlingOutcome(observation) ==
    IF observation.status = "response.complete" THEN <<"resolved">>
    ELSE IF observation.status = "response.error" THEN <<"RequestError">>
    ELSE IF observation.status = "failed" THEN <<"request error">>
    ELSE IF observation.attempts >= input.maxAttempts THEN <<"Timeout">>
    ELSE <<>>

RECURSIVE FirstSettling(_)
\* the outcome of the first observation that settles, <<>> if none does
FirstSettling(log) ==
    IF log = <<>> THEN <<>>
    ELSE IF SettlingOutcome(Head(log)) # <<>> THEN SettlingOutcome(Head(log))
    ELSE FirstSettling(Tail(log))

\* C30: provided every status request returns or fails, waitForCompletion
\* eventually settles: resolved when a poll observes response.complete,
\* rejected with RequestError on response.error, with the request's error
\* when a poll request fails, with Timeout once maxAttempts polls have
\* been made without a terminal status; once settled its interval is
\* cleared and no status request is started.
C30_WaitSettles ==
    /\ <>(pc = "waiting" /\ output.settled # <<>>)
    /\ [](pc = "waiting" =>
            /\ output.settled = FirstSettling(output.log)
            /\ output.settled # <<>> => ~input.timer
            /\ ~output.requestAfterSettled)

\* the wait timed out on the second poll although a later request was
\* still in flight
C30_Witness ==
    /\ pc = "waiting"
    /\ output.settled = <<"Timeout">>
    /\ input.maxAttempts = 2
    /\ Len(output.log) = 2
    /\ input.inflight # {}

====
